---- MODULE Spec2Model ----
(***************************************************************************)
(* Worker pool of src/orchestrator/worker.rs and mailbox of                 *)
(* src/mailbox/mod.rs as a state machine.                                  *)
(*                                                                         *)
(* Every thread of the program is a process with a program counter: the    *)
(* default, frame and background worker threads, the client threads that   *)
(* call submit_job / submit_async / join_foreground / join_all, and the    *)
(* tasks spawned on the async runtime.  An action holds at most one access *)
(* that other threads can race with (an atomic load or read-modify-write,  *)
(* a lock-free queue operation, a condvar wait or notify).  Around that    *)
(* access it may hold what commutes with every step of the other threads:  *)
(* a mutex acquisition before it, accesses to data the held mutex          *)
(* protects, thread-local work (running the closure), and the mutex        *)
(* release after it.  A mutex is therefore a state variable only where it  *)
(* stays held across two racing accesses.                                  *)
(*                                                                         *)
(* parking_lot's Condvar has no spurious wakeups, so a waiter leaves its   *)
(* wait only through notify_one / notify_all.                              *)
(***************************************************************************)
EXTENDS Integers, Sequences, FiniteSets, TLC

\* ------------------------------------------------------------------ bounds

\* Number of submit_job / submit_async calls made in one behaviour.
MaxJobs == 2

\* Capacity of the frame ring.  The program's value is 1024 (worker.rs:38);
\* the model scales it down so that a full ring is reachable.
FRAME_QUEUE_CAPACITY == 1

\* Number of MailBox::register calls made in one behaviour.
MaxRegisters == 2

\* Number of MailBox::send calls made in one behaviour.
MaxSends == 2

\* Number of MailBox::send calls made in one behaviour in which every mailbox
\* operation races with every other.
MaxRacingSends == 1

\* Envelopes a channel holds before Sender::send has to wait.
ChannelCapacity == 1

\* Number of Envelope and CEnvelope values made in one behaviour.
MaxHolders == 3

\* Number of addresses other than null.
MaxPointers == 2

\* ------------------------------------------------------------- value types

Priority == {"Immediate", "Normal", "Deferred", "VideoFrame", "Background"}

SubQueues == {"immediate", "normal", "deferred", "frame", "background"}

Groups == {"default", "frame", "background"}

\* The sub-queue a sync job of priority p is pushed to (add_job's match).
QueueOf(p) ==
    CASE p = "Immediate"  -> "immediate"
      [] p = "Normal"     -> "normal"
      [] p = "Deferred"   -> "deferred"
      [] p = "VideoFrame" -> "frame"
      [] p = "Background" -> "background"

\* The queue group (its mutex, its condvar, its workers) of a sub-queue.
GroupOf(q) ==
    CASE q \in {"immediate", "normal", "deferred"} -> "default"
      [] q = "frame"                                -> "frame"
      [] q = "background"                           -> "background"

\* Which counter a priority is accounted on: matches!(p, Priority::Background).
IsBackground(p) == p = "Background"

\* Worker threads the pool can hold, by group; Rank orders the threads of a
\* group so that a SchedulerConfig of n threads spawns ranks 1..n.
DefaultWorkers == {"d1", "d2"}
FrameWorkers == {"f1", "f2"}
BackgroundWorkers == {"b1", "b2"}
Workers == DefaultWorkers \cup FrameWorkers \cup BackgroundWorkers

WorkerGroup(w) ==
    CASE w \in DefaultWorkers    -> "default"
      [] w \in FrameWorkers      -> "frame"
      [] w \in BackgroundWorkers -> "background"

Rank(w) == IF w \in {"d1", "f1", "b1"} THEN 1 ELSE 2

Clients == {"c1", "c2"}

TaskIds == 1..MaxJobs

NoTask == 0

VARIABLES
    queue,          \* [SubQueues -> Seq(TaskIds)]: the five FIFO sub-queues
    qlock,          \* [Groups -> BOOLEAN]: default_q.queue, frame_q.lock, bg_q.queue held
    zero_cv_lock,   \* BOOLEAN: zero_cv_lock held
    fg_jobs,        \* foreground counter
    bg_jobs,        \* background counter
    stopping,       \* stopping flag
    wpc,            \* [Workers -> pc] position of each worker thread
    wcur,           \* [Workers -> TaskIds \cup {NoTask}] task a worker has popped
    cpc,            \* [Clients -> pc] position of each client thread
    cop,            \* [Clients -> record] the call a client is in
    task,           \* [TaskIds -> record] every job handed to a queue or the runtime
    nextId          \* next free task id

VARIABLES
    registry,       \* MailBox.registry: the slab of endpoints the ArcSwap points to
    id,             \* MailBox.id: the name table the ArcSwap points to
    mpc,            \* [Procs -> pc] position of each thread calling the mailbox
    mop,            \* [Procs -> record] the call a thread is in, with its locals
    chan,           \* [Endpoints -> Seq(envelope id)] what each endpoint's channel got
    regs,           \* [Endpoints -> record] the register call that made the endpoint
    nextEp,         \* next endpoint to be created
    nextEnv,        \* next envelope to be sent
    rx,             \* [Endpoints -> BOOLEAN] the receiver of the endpoint's channel exists
    GLOBAL_MAILBOX  \* GLOBAL_MAILBOX (OnceLock): TRUE once a mailbox has been set

VARIABLES
    NEXT_UUID,      \* utils::uuid::NEXT_UUID
    holder,         \* [Holders -> record] every message value there is or was
    calls,          \* [Pointers -> Nat] runs of the foreign destructor on each pointer
    allocated       \* pointers handed out by alloc

vars == <<queue, qlock, zero_cv_lock, fg_jobs, bg_jobs, stopping,
          wpc, wcur, cpc, cop, task, nextId,
          registry, id, mpc, mop, chan, regs, nextEp, nextEnv, rx, GLOBAL_MAILBOX,
          NEXT_UUID, holder, calls, allocated>>

wpVars == <<queue, qlock, zero_cv_lock, fg_jobs, bg_jobs, stopping,
            wpc, wcur, cpc, cop, task, nextId>>

mbVars == <<registry, id, mpc, mop, chan, regs, nextEp, nextEnv, rx, GLOBAL_MAILBOX>>

envVars == <<NEXT_UUID, holder, calls, allocated>>

poolVars == <<queue, qlock, zero_cv_lock, fg_jobs, bg_jobs, stopping>>

\* ------------------------------------------------------------- pure helpers

\* Mutant of Max: the lower bound is not applied.
MaxUnclamped(a, b) == a

Max(a, b) == IF a >= b THEN a ELSE b

\* Mutant of PushBack: push_front.
PushFront(s, t) == <<t>> \o s

\* VecDeque::push_back
PushBack(s, t) == Append(s, t)

\* VecDeque::pop_front / ArrayQueue::pop: the element removed.
Front(s) == Head(s)

\* The deque left by pop_front.
PopFront(s) == Tail(s)

\* Mutant of PQPopFrom: normal is tried before immediate.
PQPopFromNormalFirst(q) ==
    IF q["normal"] # <<>> THEN "normal"
    ELSE IF q["immediate"] # <<>> THEN "immediate"
    ELSE IF q["deferred"] # <<>> THEN "deferred"
    ELSE "none"

\* PriorityQueues::pop: the sub-queue the next task is taken from, or "none".
PQPopFrom(q) ==
    IF q["immediate"] # <<>> THEN "immediate"
    ELSE IF q["normal"] # <<>> THEN "normal"
    ELSE IF q["deferred"] # <<>> THEN "deferred"
    ELSE "none"

\* The sub-queue a worker of group g pops from, or "none" when it finds nothing.
PopFrom(g, q) ==
    CASE g = "default"    -> PQPopFrom(q)
      [] g = "frame"      -> IF q["frame"] # <<>> THEN "frame" ELSE "none"
      [] g = "background" -> IF q["background"] # <<>> THEN "background" ELSE "none"

\* Mutant of RingAccepts: the fullness test is off by one.
RingAcceptsOffByOne(ring) == Len(ring) <= Max(FRAME_QUEUE_CAPACITY, 1)

\* ArrayQueue::push succeeds iff the ring holds fewer than its capacity.
RingAccepts(ring) == Len(ring) < Max(FRAME_QUEUE_CAPACITY, 1)

\* Mutant of ReachedZero: fetch_sub(1) == 0.
ReachedZeroAfter(old) == old = 0

\* fetch_sub(1) == 1: the decrement took the counter from one to zero.
ReachedZero(old) == old = 1

\* Mutant of JoinSyncWaits: the loop tests the background counter.
JoinSyncWaitsWrongCounter(fg, bg) == bg # 0

\* Mutant of JoinSyncWaits: the loop is join_all's.
JoinSyncWaitsBoth(fg, bg) == fg # 0 \/ bg # 0

\* join_sync's loop condition: keep waiting while this holds.
JoinSyncWaits(fg, bg) == fg # 0

\* join_all's loop condition, left operand of ||.
JoinAllWaitsFg(fg) == fg # 0

\* Mutant of JoinAllWaitsBg: the background counter is not tested.
JoinAllWaitsBgNever(bg) == FALSE

\* join_all's loop condition, right operand of ||, read only when the left is false.
JoinAllWaitsBg(bg) == bg # 0

\* ------------------------------------------------------------------- tasks

NoOp == [kind |-> "none", prio |-> "Normal", id |-> NoTask, saw |-> {}, waited |-> FALSE,
         grp |-> "default", cfg |-> <<1, 1, 1>>]

FreshTask == [st |-> "none", prio |-> "Normal", async |-> FALSE, ret |-> FALSE]

\* A finished job: the closure is gone, only the fact that it ran is kept.
DoneTask == [st |-> "done", prio |-> "Normal", async |-> FALSE, ret |-> TRUE]

\* Tasks whose closure or future has run to its end and whose counter has been
\* decremented for it.
Completed(t) == task[t].st \in {"zlock", "done"}

Waiters(g) == {w \in Workers : WorkerGroup(w) = g /\ wpc[w] = "waiting"}

\* Mutant of NotifyOne: the notification wakes nobody.
NotifyOneLost(g) == {wpc}

\* Condvar::notify_one on a queue condvar: the worker states it can lead to.
NotifyOne(g) ==
    IF Waiters(g) = {} THEN {wpc}
    ELSE {[wpc EXCEPT ![w] = "relock"] : w \in Waiters(g)}

\* Condvar::notify_all on zero_cv: every parked joiner becomes runnable.
NotifyAllZero == [c \in Clients |-> IF cpc[c] = "j_wait" THEN "j_relock" ELSE cpc[c]]

\* ------------------------------------------------------------------ mailbox

\* Threads calling the mailbox.
Procs == {"p1", "p2"}

\* Names plugins register under.
Names == {"alpha", "beta"}

\* Endpoints, one per register call, numbered in the order of the calls.
Endpoints == 1..MaxRegisters

NoEndpoint == 0

\* Slot ids an envelope can name as its destination: every slot the slab can
\* have allocated, and one it never has.
Destinations == 0..MaxRegisters

\* HashMap::get(name) == None
NoSlot == -1

\* Slab::new(): no entries, the next key to hand out is 0.
EmptySlab == [entries |-> <<>>, next |-> 0]

\* HashMap::new()
EmptyMap == [n \in Names |-> NoSlot]

\* Slab::contains(key): key k is entry k + 1 of the sequence.
SlabContains(slab, k) == k < Len(slab.entries) /\ slab.entries[k + 1].occ

\* Mutant of SlabGet: the entry after the key's.
SlabGetNeighbour(slab, k) ==
    IF SlabContains(slab, k + 1) THEN slab.entries[k + 2].val ELSE NoEndpoint

\* Slab::get(key)
SlabGet(slab, k) ==
    IF SlabContains(slab, k) THEN slab.entries[k + 1].val ELSE NoEndpoint

\* Slab::insert(val): the key is slab.next; a vacant entry holds the key that
\* is next after it, and past the end the vector grows.
SlabInsert(slab, e) ==
    IF slab.next = Len(slab.entries)
    THEN [entries |-> Append(slab.entries, [occ |-> TRUE, val |-> e]),
          next    |-> slab.next + 1]
    ELSE [entries |-> [slab.entries EXCEPT ![slab.next + 1] = [occ |-> TRUE, val |-> e]],
          next    |-> slab.entries[slab.next + 1].val]

\* Mutant of SlabRemove: the entry stays.
SlabRemoveKeeps(slab, k) == slab

\* Slab::remove(key) of an occupied entry: the entry becomes vacant and heads
\* the free list.
SlabRemove(slab, k) ==
    [entries |-> [slab.entries EXCEPT ![k + 1] = [occ |-> FALSE, val |-> slab.next]],
     next    |-> k]

\* Mutant of MapInsert: the other names are dropped.
MapInsertAlone(map, n, k) == [EmptyMap EXCEPT ![n] = k]

\* HashMap::insert(name, id)
MapInsert(map, n, k) == [map EXCEPT ![n] = k]

NoCall == [kind |-> "none", name |-> "alpha", slot |-> NoSlot, ep |-> NoEndpoint, env |-> 0,
           reg |-> EmptySlab, ids |-> EmptyMap, res |-> "none"]

\* wiped: re_init has been called since the register call was made.
NoRegistration == [name |-> "alpha", slot |-> NoSlot, returned |-> FALSE, live |-> FALSE,
                   wiped |-> FALSE]

\* MailBox::new()
MailBoxNew ==
    /\ registry = EmptySlab
    /\ id = EmptyMap
    /\ mpc = [p \in Procs |-> "idle"]
    /\ mop = [p \in Procs |-> NoCall]
    /\ chan = [e \in Endpoints |-> <<>>]
    /\ regs = [e \in Endpoints |-> NoRegistration]
    /\ nextEp = 1
    /\ nextEnv = 1
    /\ rx = [e \in Endpoints |-> TRUE]
    /\ GLOBAL_MAILBOX = FALSE

\* u32::MAX, in a model whose u32 is eight bits wide; slot ids stay below it.
U32_MAX == 255

\* Mutant of SendStatus: every result is reported as success.
SendStatusZero(res) == 0

\* send_global_c: match block_on(send_global(..)) { Ok(_) => 0, Err(e) => 1 }
SendStatus(res) == IF res = "Ok" THEN 0 ELSE 1

\* The call returns res with value k (a slot id) and endpoint e; a call made
\* through send_global_c returns the status of res instead of k.
Return(p, res, k, e) ==
    /\ mpc' = [mpc EXCEPT ![p] = "returned"]
    /\ mop' = [mop EXCEPT ![p] =
            [NoCall EXCEPT !.kind = mop[p].kind, !.name = mop[p].name, !.env = mop[p].env,
                           !.res = res, !.ep = e,
                           !.slot = IF mop[p].kind = "send_global_c" THEN SendStatus(res) ELSE k]]

\* register(endpoint, name): the registry is loaded and cloned, and the
\* endpoint inserted into the clone.
Register(p, n) ==
    /\ mpc[p] = "idle"
    /\ nextEp <= MaxRegisters
    /\ mpc' = [mpc EXCEPT ![p] = "reg_swap"]
    /\ mop' = [mop EXCEPT ![p] =
            [NoCall EXCEPT !.kind = "register", !.name = n, !.ep = nextEp,
                           !.slot = registry.next, !.reg = SlabInsert(registry, nextEp)]]
    /\ regs' = [regs EXCEPT ![nextEp] = [NoRegistration EXCEPT !.name = n]]
    /\ nextEp' = nextEp + 1
    /\ UNCHANGED <<wpVars, envVars, rx, GLOBAL_MAILBOX, registry, id, chan, nextEnv>>

\* self.registry.swap(Arc::new(regswap))
RegSwap(p) ==
    /\ mpc[p] = "reg_swap"
    /\ registry' = mop[p].reg
    /\ mpc' = [mpc EXCEPT ![p] = "reg_load_id"]
    /\ UNCHANGED <<wpVars, envVars, rx, GLOBAL_MAILBOX, id, mop, chan, regs, nextEp, nextEnv>>

\* The name table is loaded and cloned, and (name, id) inserted into the clone.
RegLoadId(p) ==
    /\ mpc[p] = "reg_load_id"
    /\ mop' = [mop EXCEPT ![p].ids = MapInsert(id, mop[p].name, mop[p].slot)]
    /\ mpc' = [mpc EXCEPT ![p] = "reg_swap_id"]
    /\ UNCHANGED <<wpVars, envVars, rx, GLOBAL_MAILBOX, registry, id, chan, regs, nextEp, nextEnv>>

\* self.id.swap(Arc::new(swapid)); id
RegSwapId(p) ==
    /\ mpc[p] = "reg_swap_id"
    /\ id' = mop[p].ids
    /\ regs' = [regs EXCEPT ![mop[p].ep] =
            [@ EXCEPT !.name = mop[p].name, !.slot = mop[p].slot,
                      !.returned = TRUE, !.live = TRUE]]
    /\ Return(p, "Ok", mop[p].slot, mop[p].ep)
    /\ UNCHANGED <<wpVars, envVars, rx, GLOBAL_MAILBOX, registry, chan, nextEp, nextEnv>>

\* unregister(id): if !self.registry.load().contains(id) { Err(PluginUnloadFailed { id }) }.
\* The registrations with this id stop being live when the call is made.
Unregister(p, k) ==
    /\ mpc[p] = "idle"
    /\ regs' = [e \in Endpoints |->
            IF regs[e].slot = k THEN [regs[e] EXCEPT !.live = FALSE] ELSE regs[e]]
    /\ IF SlabContains(registry, k)
       THEN /\ mpc' = [mpc EXCEPT ![p] = "unreg_load"]
            /\ mop' = [mop EXCEPT ![p] = [NoCall EXCEPT !.kind = "unregister", !.slot = k]]
       ELSE /\ mpc' = [mpc EXCEPT ![p] = "returned"]
            /\ mop' = [mop EXCEPT ![p] =
                    [NoCall EXCEPT !.kind = "unregister", !.slot = k, !.res = "PluginUnloadFailed"]]
    /\ UNCHANGED <<wpVars, envVars, rx, GLOBAL_MAILBOX, registry, id, chan, nextEp, nextEnv>>

\* The registry is loaded a second time and cloned; swapreg.remove(id)
\* panics when the entry of the clone is vacant.
UnregLoad(p) ==
    /\ mpc[p] = "unreg_load"
    /\ IF SlabContains(registry, mop[p].slot)
       THEN /\ mpc' = [mpc EXCEPT ![p] = "unreg_swap"]
            /\ mop' = [mop EXCEPT ![p].reg = SlabRemove(registry, mop[p].slot),
                                  ![p].ep = SlabGet(registry, mop[p].slot)]
       ELSE /\ mpc' = [mpc EXCEPT ![p] = "panicked"]
            /\ mop' = [mop EXCEPT ![p].res = "panic"]
    /\ UNCHANGED <<wpVars, envVars, rx, GLOBAL_MAILBOX, registry, id, chan, regs, nextEp, nextEnv>>

\* self.registry.swap(Arc::new(swapreg)); Ok(endpoint)
UnregSwap(p) ==
    /\ mpc[p] = "unreg_swap"
    /\ registry' = mop[p].reg
    /\ Return(p, "Ok", mop[p].slot, mop[p].ep)
    /\ UNCHANGED <<wpVars, envVars, rx, GLOBAL_MAILBOX, id, chan, regs, nextEp, nextEnv>>

\* send(envelope): self.registry.load().get(envelope.destination), then
\* ok_or(PluginNotFound { id: envelope.destination })? or the clone of the
\* endpoint's channel.
SendLookup(p, dest, kind) ==
    /\ mpc[p] = "idle"
    /\ nextEnv <= MaxSends
    /\ nextEnv' = nextEnv + 1
    /\ IF SlabGet(registry, dest) # NoEndpoint
       THEN /\ mpc' = [mpc EXCEPT ![p] = "send_chan"]
            /\ mop' = [mop EXCEPT ![p] =
                    [NoCall EXCEPT !.kind = kind, !.slot = dest, !.env = nextEnv,
                                   !.ep = SlabGet(registry, dest)]]
       ELSE /\ mpc' = [mpc EXCEPT ![p] = "returned"]
            /\ mop' = [mop EXCEPT ![p] =
                    [NoCall EXCEPT !.kind = kind, !.env = nextEnv,
                                   !.slot = IF kind = "send_global_c"
                                            THEN SendStatus("PluginNotFound") ELSE dest,
                                   !.res = "PluginNotFound"]]
    /\ UNCHANGED <<wpVars, envVars, rx, GLOBAL_MAILBOX, registry, id, chan, regs, nextEp>>

\* MailBox::send(envelope) called on the mailbox.
Send(p, dest) == SendLookup(p, dest, "send")

\* Mutant of Target: the slot is looked up again when the envelope is handed over.
TargetOfSlotNow(p) ==
    IF SlabGet(registry, mop[p].slot) # NoEndpoint
    THEN SlabGet(registry, mop[p].slot)
    ELSE mop[p].ep

\* let endpoint = endpoint.channel.clone(): the sender the call holds from the
\* lookup on.
Target(p) == mop[p].ep

\* endpoint.send(envelope.clone()).await.map_err(|_| PluginFailedMessage { envelope }):
\* Sender::send fails when the receiver is gone, puts the envelope onto the
\* channel when there is room, and otherwise waits for room.
SendChan(p) ==
    /\ mpc[p] = "send_chan"
    /\ IF ~rx[Target(p)]
       THEN /\ chan' = chan
            /\ Return(p, "PluginFailedMessage", mop[p].slot, Target(p))
       ELSE /\ Len(chan[Target(p)]) < ChannelCapacity
            /\ chan' = [chan EXCEPT ![Target(p)] = Append(chan[Target(p)], mop[p].env)]
            /\ Return(p, "Ok", mop[p].slot, Target(p))
    /\ UNCHANGED <<wpVars, envVars, rx, GLOBAL_MAILBOX, registry, id, regs, nextEp, nextEnv>>

\* The plugin that owns the receiver of endpoint e takes the next envelope.
Recv(e) ==
    /\ rx[e]
    /\ chan[e] # <<>>
    /\ chan' = [chan EXCEPT ![e] = Tail(chan[e])]
    /\ UNCHANGED <<wpVars, envVars, rx, GLOBAL_MAILBOX, registry, id, mpc, mop, regs, nextEp, nextEnv>>

\* The plugin that owns the receiver of endpoint e drops it, and with it the
\* envelopes still on the channel.
CloseRx(e) ==
    /\ rx[e]
    /\ e < nextEp
    /\ rx' = [rx EXCEPT ![e] = FALSE]
    /\ chan' = [chan EXCEPT ![e] = <<>>]
    /\ UNCHANGED <<wpVars, envVars, GLOBAL_MAILBOX, registry, id, mpc, mop, regs, nextEp, nextEnv>>

\* resolve(name): self.id.load().get(name)
Resolve(p, n) ==
    /\ mpc[p] = "idle"
    /\ mpc' = [mpc EXCEPT ![p] = "returned"]
    /\ mop' = [mop EXCEPT ![p] =
            [NoCall EXCEPT !.kind = "resolve", !.name = n, !.slot = id[n],
                           !.res = IF id[n] = NoSlot THEN "PluginNameNotFound" ELSE "Ok"]]
    /\ UNCHANGED <<wpVars, envVars, rx, GLOBAL_MAILBOX, registry, id, chan, regs, nextEp, nextEnv>>

\* re_init(): self.registry.swap(Arc::new(Slab::new()))
ReInit(p) ==
    /\ mpc[p] = "idle"
    /\ registry' = EmptySlab
    /\ mpc' = [mpc EXCEPT ![p] = "reinit_id"]
    /\ mop' = [mop EXCEPT ![p] = [NoCall EXCEPT !.kind = "re_init"]]
    /\ regs' = [e \in Endpoints |->
            IF e < nextEp THEN [regs[e] EXCEPT !.wiped = TRUE] ELSE regs[e]]
    /\ UNCHANGED <<wpVars, envVars, rx, GLOBAL_MAILBOX, id, chan, nextEp, nextEnv>>

\* self.id.swap(Arc::new(HashMap::new()))
ReInitId(p) ==
    /\ mpc[p] = "reinit_id"
    /\ id' = EmptyMap
    /\ Return(p, "Ok", NoSlot, NoEndpoint)
    /\ UNCHANGED <<wpVars, envVars, rx, GLOBAL_MAILBOX, registry, chan, regs, nextEp, nextEnv>>

\* init_mailbox() as it would be if a second call put a new, empty MailBox in
\* place of the one that is set.
InitMailboxReplaces(p) ==
    /\ mpc[p] = "idle"
    /\ GLOBAL_MAILBOX' = TRUE
    /\ registry' = EmptySlab
    /\ id' = EmptyMap
    /\ mpc' = [mpc EXCEPT ![p] = "returned"]
    /\ mop' = [mop EXCEPT ![p] =
            [NoCall EXCEPT !.kind = "init_mailbox",
                           !.res = IF GLOBAL_MAILBOX THEN "KernelInitFailed" ELSE "Ok"]]
    /\ UNCHANGED <<wpVars, envVars, rx, chan, regs, nextEp, nextEnv>>

\* init_mailbox(): GLOBAL_MAILBOX.set(MailBox::new()), KernelInitFailed when
\* it was set before.
InitMailbox(p) ==
    /\ mpc[p] = "idle"
    /\ GLOBAL_MAILBOX' = TRUE
    /\ mpc' = [mpc EXCEPT ![p] = "returned"]
    /\ mop' = [mop EXCEPT ![p] =
            [NoCall EXCEPT !.kind = "init_mailbox",
                           !.res = IF GLOBAL_MAILBOX THEN "KernelInitFailed" ELSE "Ok"]]
    /\ UNCHANGED <<wpVars, envVars, rx, registry, id, chan, regs, nextEp, nextEnv>>

\* What a foreign caller passes to resolve_global_c: the null pointer, bytes
\* that are not UTF-8, or a name.
Queries == {"null", "not UTF-8"} \cup Names

\* resolve_global(query): Uninit when GLOBAL_MAILBOX is not set, otherwise
\* MailBox::resolve.
ResolveGlobal(query) ==
    IF ~GLOBAL_MAILBOX THEN "Uninit"
    ELSE IF id[query] = NoSlot THEN "PluginNameNotFound" ELSE "Ok"

\* resolve_global_c(query): u32::MAX for the null pointer, for a string
\* CStr::to_str rejects and for an error of resolve_global, otherwise the id.
ResolveGlobalC(p, query) ==
    /\ mpc[p] = "idle"
    /\ mpc' = [mpc EXCEPT ![p] = "returned"]
    /\ mop' = [mop EXCEPT ![p] =
            IF query = "null"
            THEN [NoCall EXCEPT !.kind = "resolve_global_c", !.res = "null", !.slot = U32_MAX]
            ELSE IF query = "not UTF-8"
            THEN [NoCall EXCEPT !.kind = "resolve_global_c", !.res = "Utf8Error",
                                !.slot = U32_MAX]
            ELSE [NoCall EXCEPT !.kind = "resolve_global_c", !.name = query,
                                !.res = ResolveGlobal(query),
                                !.slot = IF ResolveGlobal(query) = "Ok"
                                         THEN id[query] ELSE U32_MAX]]
    /\ UNCHANGED <<wpVars, envVars, rx, GLOBAL_MAILBOX, registry, id, chan, regs, nextEp, nextEnv>>

\* send_global_c(msg): send_global(msg.into()) is Uninit when GLOBAL_MAILBOX
\* is not set and MailBox::send otherwise.
SendGlobalC(p, dest) ==
    IF GLOBAL_MAILBOX
    THEN SendLookup(p, dest, "send_global_c")
    ELSE /\ mpc[p] = "idle"
         /\ nextEnv <= MaxSends
         /\ nextEnv' = nextEnv + 1
         /\ mpc' = [mpc EXCEPT ![p] = "returned"]
         /\ mop' = [mop EXCEPT ![p] =
                [NoCall EXCEPT !.kind = "send_global_c", !.env = nextEnv, !.res = "Uninit",
                               !.slot = SendStatus("Uninit")]]
         /\ UNCHANGED <<wpVars, envVars, rx, GLOBAL_MAILBOX, registry, id, chan, regs, nextEp>>

\* The caller goes on after a mailbox call has returned.
MReturn(p) ==
    /\ mpc[p] = "returned"
    /\ mpc' = [mpc EXCEPT ![p] = "idle"]
    /\ mop' = [mop EXCEPT ![p] = NoCall]
    /\ UNCHANGED <<wpVars, envVars, rx, GLOBAL_MAILBOX, registry, id, chan, regs, nextEp, nextEnv>>

\* ---------------------------------------------------- envelopes and messages

\* Values of type Envelope or CEnvelope made in one behaviour, numbered in the
\* order they are made.
Holders == 1..MaxHolders

NoHolder == 0

\* Addresses; NullPtr is the null pointer.
Pointers == 1..MaxPointers

NullPtr == 0

\* Lengths of a foreign buffer: zero and a positive one.
Lens == {0, 4}

\* (source, destination, require_ack, opcode) of the envelopes that are made.
Headers ==
    { [source |-> 1, destination |-> 0, require_ack |-> TRUE,  opcode |-> 7],
      [source |-> 0, destination |-> 1, require_ack |-> FALSE, opcode |-> 0] }

\* A message: opcode, the tag (DataType / the variant of DataEnum) and what the
\* variant carries.  free is the destructor of an FFIData: the one the foreign
\* side supplied, or dummy.
NoMessage == [opcode |-> 0, tag |-> "None", code |-> 0, ptr |-> NullPtr, len |-> 0,
              free |-> "none"]

\* Messages Rust code builds for Envelope::new: DataEnum::None and
\* DataEnum::Code.  FFIData has private fields and no constructor.
NewMessages == {NoMessage, [NoMessage EXCEPT !.tag = "Code", !.code = 3]}

\* A value: st is "unused", "live" or "dropped"; type is the Rust type; at is
\* who holds it (the caller, a channel, a PluginFailedMessage error) or, for an
\* FFIData force_box consumed, what force_box returned; made is how it came to
\* be; root is the foreign value it derives from.
NoValue == [st |-> "unused", type |-> "Envelope", at |-> "caller", made |-> "none",
            root |-> NoHolder, id |-> 0, source |-> 0, destination |-> 0,
            require_ack |-> FALSE, message |-> NoMessage]

\* The value made next.
NextHolder ==
    IF \E h \in Holders : holder[h].st = "unused"
    THEN CHOOSE h \in Holders :
            holder[h].st = "unused" /\ \A g \in Holders : g < h => holder[g].st # "unused"
    ELSE NoHolder

\* Foreign buffers the foreign side has handed over and no destructor has
\* freed, and buffers it lets the program peek into.
ForeignBuffers ==
    { holder[h].message.ptr : h \in { g \in Holders :
        /\ holder[g].made = "foreign"
        /\ \/ holder[g].message.tag = "FfiPeek"
           \/ holder[g].message.tag = "FfiData" /\ calls[holder[g].message.ptr] = 0 } }

\* Addresses a foreign caller can pass for a new buffer of its own.
FreshPointers ==
    { p \in Pointers : p \notin allocated /\ calls[p] = 0
                       /\ \A h \in Holders : holder[h].message.ptr # p }

\* std::alloc::alloc(layout): null when the allocation fails, otherwise an
\* address no allocation that still exists has.  A layout of size zero is
\* undefined behaviour: any address can come back.
AllocOutcomes(len) ==
    IF len = 0
    THEN Pointers \cup {NullPtr}
    ELSE {NullPtr} \cup (Pointers \ (allocated \cup ForeignBuffers))

\* Messages a foreign caller builds: no data, a code, a peek into a buffer of
\* its own, or a buffer it hands over with its destructor.
ForeignMessages ==
    NewMessages
    \cup { [NoMessage EXCEPT !.tag = "FfiPeek", !.ptr = ptr, !.len = 4] : ptr \in FreshPointers }
    \cup { [NoMessage EXCEPT !.tag = "FfiData", !.ptr = ptr, !.len = len, !.free = "foreign"] :
                ptr \in FreshPointers, len \in Lens }

\* Ids a foreign caller gives its envelopes.
ForeignIds == {0, 5}

\* Mutant of FFIDataClone: the fields are copied.
FFIDataCopy(m, loc) == m

\* <FFIData as Clone>::clone: a new allocation of the same length, with dummy
\* as its destructor.
FFIDataClone(m, loc) == [m EXCEPT !.ptr = loc, !.free = "dummy"]

\* <CMessage as Clone>::clone and the derived <Message as Clone>::clone.
MessageClone(m, loc) == IF m.tag = "FfiData" THEN FFIDataClone(m, loc) ELSE m

\* <Message as From<CMessage>>::from
FromCMessage(m, loc) ==
    CASE m.tag = "None"    -> [NoMessage EXCEPT !.opcode = m.opcode]
      [] m.tag = "Code"    -> [NoMessage EXCEPT !.opcode = m.opcode, !.tag = "Code",
                                                !.code = m.code]
      [] m.tag = "FfiPeek" -> [NoMessage EXCEPT !.opcode = m.opcode, !.tag = "FfiPeek",
                                                !.ptr = m.ptr, !.len = m.len]
      [] m.tag = "FfiData" -> FFIDataClone(m, loc)

\* <CMessage as Drop>::drop and <FFIData as Drop>::drop: (free)(ptr) runs the
\* foreign destructor unless free is dummy.
Destructor(m) == m.tag = "FfiData" /\ m.free = "foreign"

\* The destructor calls after a value with message m was dropped.
Dropped(m, c) == IF Destructor(m) THEN [c EXCEPT ![m.ptr] = @ + 1] ELSE c

\* Mutant of FetchAdd: the counter is left as it was.
FetchAddNothing(c) == c

\* NEXT_UUID.fetch_add(1, Release): the new value of the counter.  The counter
\* is 64 bits wide; a behaviour increments it at most MaxHolders times.
FetchAdd(c) == c + 1

\* The statics and the heap when the process starts.
EnvelopeInit ==
    /\ NEXT_UUID = 0
    /\ holder = [h \in Holders |-> NoValue]
    /\ calls = [p \in Pointers \cup {NullPtr} |-> 0]
    /\ allocated = {}

\* utils::id::get_next(), called by Envelope::new
GetNext(p) ==
    /\ mpc[p] = "idle"
    /\ NextHolder # NoHolder
    /\ NEXT_UUID < MaxHolders
    /\ mpc' = [mpc EXCEPT ![p] = "env_new"]
    /\ mop' = [mop EXCEPT ![p] = [NoCall EXCEPT !.kind = "Envelope::new", !.env = NEXT_UUID]]
    /\ NEXT_UUID' = FetchAdd(NEXT_UUID)
    /\ UNCHANGED <<wpVars, registry, id, chan, regs, nextEp, nextEnv, rx, GLOBAL_MAILBOX,
                   holder, calls, allocated>>

\* Envelope::new(source, destination, require_ack, message): the struct is
\* built around the id get_next returned.
EnvelopeNew(p, hdr, m) ==
    /\ mpc[p] = "env_new"
    /\ NextHolder # NoHolder
    /\ holder' = [holder EXCEPT ![NextHolder] =
            [NoValue EXCEPT !.st = "live", !.made = "new", !.id = mop[p].env,
                            !.source = hdr.source, !.destination = hdr.destination,
                            !.require_ack = hdr.require_ack,
                            !.message = [m EXCEPT !.opcode = hdr.opcode]]]
    /\ mpc' = [mpc EXCEPT ![p] = "idle"]
    /\ mop' = [mop EXCEPT ![p] = NoCall]
    /\ UNCHANGED <<wpVars, registry, id, chan, regs, nextEp, nextEnv, rx, GLOBAL_MAILBOX,
                   NEXT_UUID, calls, allocated>>

\* A foreign caller builds a CEnvelope (repr(C)) with an id of its own.
CEnvelopeIn(k, hdr, m) ==
    /\ NextHolder # NoHolder
    /\ holder' = [holder EXCEPT ![NextHolder] =
            [NoValue EXCEPT !.st = "live", !.type = "CEnvelope", !.made = "foreign",
                            !.root = NextHolder, !.id = k,
                            !.source = hdr.source, !.destination = hdr.destination,
                            !.require_ack = hdr.require_ack,
                            !.message = [m EXCEPT !.opcode = hdr.opcode]]]
    /\ UNCHANGED <<wpVars, mbVars, NEXT_UUID, calls, allocated>>

\* <Envelope as From<CEnvelope>>::from(value): the Envelope is built, and value
\* is dropped when the function returns.
FromCEnvelope(h, loc) ==
    /\ NextHolder # NoHolder
    /\ holder[h].st = "live"
    /\ holder[h].type = "CEnvelope"
    /\ loc \in AllocOutcomes(holder[h].message.len)
    /\ holder[h].message.tag # "FfiData" => loc = NullPtr
    /\ holder' = [holder EXCEPT
            ![NextHolder] = [holder[h] EXCEPT !.type = "Envelope", !.made = "from",
                                              !.message = FromCMessage(holder[h].message, loc)],
            ![h].st = "dropped"]
    /\ calls' = Dropped(holder[h].message, calls)
    /\ allocated' = IF holder[h].message.tag = "FfiData" /\ loc # NullPtr
                    THEN allocated \cup {loc} ELSE allocated
    /\ UNCHANGED <<wpVars, mbVars, NEXT_UUID>>

\* <Envelope as Clone>::clone (derived) and <CEnvelope as Clone>::clone
\* (derived, over <CMessage as Clone>::clone).
CloneValue(h, loc) ==
    /\ NextHolder # NoHolder
    /\ holder[h].st = "live"
    /\ loc \in AllocOutcomes(holder[h].message.len)
    /\ holder[h].message.tag # "FfiData" => loc = NullPtr
    /\ holder' = [holder EXCEPT
            ![NextHolder] = [holder[h] EXCEPT !.made = "clone", !.at = "caller",
                                              !.message = MessageClone(holder[h].message, loc)]]
    /\ calls' = calls
    /\ allocated' = IF holder[h].message.tag = "FfiData" /\ loc # NullPtr
                    THEN allocated \cup {loc} ELSE allocated
    /\ UNCHANGED <<wpVars, mbVars, NEXT_UUID>>

\* The value goes out of scope: <CMessage as Drop>::drop for a CEnvelope,
\* <FFIData as Drop>::drop for an Envelope or an FFIData, <BoxedFFI as
\* Drop>::drop for a BoxedFFI.
DropValue(h) ==
    /\ holder[h].st = "live"
    /\ holder' = [holder EXCEPT ![h].st = "dropped"]
    /\ calls' = Dropped(holder[h].message, calls)
    /\ UNCHANGED <<wpVars, mbVars, NEXT_UUID, allocated>>

\* The types T force_box::<T> is called with, by size_of and align_of.
Types == { [size |-> 4, align |-> 1], [size |-> 4, align |-> 2], [size |-> 8, align |-> 1] }

\* Addresses a foreign caller can put into an FFIData it hands over: a buffer
\* of its own or, once, the null pointer.
HandedPointers ==
    FreshPointers \cup
        (IF calls[NullPtr] = 0
            /\ \A h \in Holders : ~(holder[h].message.tag = "FfiData"
                                    /\ holder[h].message.ptr = NullPtr)
         THEN {NullPtr} ELSE {})

\* A foreign function hands over an FFIData (repr(C)) by value: pointer,
\* length and the destructor for it.
FFIDataIn(ptr, len) ==
    /\ NextHolder # NoHolder
    /\ ptr \in HandedPointers
    /\ holder' = [holder EXCEPT ![NextHolder] =
            [NoValue EXCEPT !.st = "live", !.type = "FFIData", !.made = "foreign",
                            !.root = NextHolder,
                            !.message = [NoMessage EXCEPT !.tag = "FfiData", !.ptr = ptr,
                                                          !.len = len, !.free = "foreign"]]]
    /\ UNCHANGED <<wpVars, mbVars, NEXT_UUID, calls, allocated>>

\* FFIData::force_box::<T>(self): None for the null pointer, for a length
\* other than size_of::<T>() and for a misaligned pointer; otherwise a
\* BoxedFFI around the same pointer with a copy of free.  self is consumed and
\* not forgotten, so <FFIData as Drop>::drop runs on it when the function
\* returns, with either result.
ForceBox(h, T) ==
    /\ holder[h].st = "live"
    /\ holder[h].type = "FFIData"
    /\ LET m == holder[h].message
       IN  IF m.ptr = NullPtr \/ m.len # T.size \/ m.ptr % T.align # 0
           THEN holder' = [holder EXCEPT ![h].st = "dropped", ![h].at = "None"]
           ELSE /\ NextHolder # NoHolder
                /\ holder' = [holder EXCEPT
                        ![NextHolder] = [holder[h] EXCEPT !.type = "BoxedFFI",
                                                          !.made = "force_box"],
                        ![h].st = "dropped", ![h].at = "Some"]
    /\ calls' = Dropped(holder[h].message, calls)
    /\ UNCHANGED <<wpVars, mbVars, NEXT_UUID, allocated>>

\* MailBox::send(envelope), from the endpoint's channel on, when the channel
\* takes the envelope: endpoint.send(envelope.clone()) puts a clone onto the
\* channel, and the closure of map_err, which owns envelope, is dropped
\* without being called.
SendDelivered(h, loc) ==
    /\ NextHolder # NoHolder
    /\ holder[h].st = "live"
    /\ holder[h].type = "Envelope"
    /\ holder[h].at = "caller"
    /\ loc \in AllocOutcomes(holder[h].message.len)
    /\ holder[h].message.tag # "FfiData" => loc = NullPtr
    /\ holder' = [holder EXCEPT
            ![NextHolder] = [holder[h] EXCEPT !.made = "clone", !.at = "channel",
                                              !.message = MessageClone(holder[h].message, loc)],
            ![h].st = "dropped"]
    /\ calls' = Dropped(holder[h].message, calls)
    /\ allocated' = IF holder[h].message.tag = "FfiData" /\ loc # NullPtr
                    THEN allocated \cup {loc} ELSE allocated
    /\ UNCHANGED <<wpVars, mbVars, NEXT_UUID>>

\* MailBox::send(envelope), from the endpoint's channel on, when the receiver
\* is gone: the clone comes back in the SendError and is dropped, and envelope
\* moves into PluginFailedMessage.
SendRefused(h, loc) ==
    /\ NextHolder # NoHolder
    /\ holder[h].st = "live"
    /\ holder[h].type = "Envelope"
    /\ holder[h].at = "caller"
    /\ loc \in AllocOutcomes(holder[h].message.len)
    /\ holder[h].message.tag # "FfiData" => loc = NullPtr
    /\ holder' = [holder EXCEPT
            ![NextHolder] = [holder[h] EXCEPT !.made = "clone", !.st = "dropped",
                                              !.message = MessageClone(holder[h].message, loc)],
            ![h].at = "error"]
    /\ calls' = Dropped(MessageClone(holder[h].message, loc), calls)
    /\ allocated' = IF holder[h].message.tag = "FfiData" /\ loc # NullPtr
                    THEN allocated \cup {loc} ELSE allocated
    /\ UNCHANGED <<wpVars, mbVars, NEXT_UUID>>

\* ------------------------------------------------------------ construction

\* WorkerPool::new + spawn_workers with cfg = (d, f, b): max(1, n) threads per group.
Spawned(d, f, b) ==
    [w \in Workers |->
        LET n == CASE WorkerGroup(w) = "default"    -> Max(d, 1)
                   [] WorkerGroup(w) = "frame"      -> Max(f, 1)
                   [] WorkerGroup(w) = "background" -> Max(b, 1)
        IN IF Rank(w) <= n THEN "top" ELSE "absent"]

InitPool(d, f, b) ==
    /\ queue = [q \in SubQueues |-> <<>>]
    /\ qlock = [g \in Groups |-> FALSE]
    /\ zero_cv_lock = FALSE
    /\ fg_jobs = 0
    /\ bg_jobs = 0
    /\ stopping = FALSE
    /\ wpc = Spawned(d, f, b)
    /\ wcur = [w \in Workers |-> NoTask]
    /\ cpc = [c \in Clients |-> "idle"]
    /\ cop = [c \in Clients |-> NoOp]
    /\ task = [t \in TaskIds |-> FreshTask]
    /\ nextId = 1
    /\ MailBoxNew
    /\ EnvelopeInit

\* ----------------------------------------------------------- worker threads

\* while !stopping.load(Acquire)
WTop(w) ==
    /\ wpc[w] = "top"
    /\ wpc' = [wpc EXCEPT ![w] =
            IF stopping THEN "exited"
            ELSE IF WorkerGroup(w) = "frame" THEN "fast" ELSE "lock"]
    /\ UNCHANGED <<poolVars, wcur, cpc, cop, task, nextId, mbVars, envVars>>

\* Taking the front task of sub-queue q; the closure starts to run.
Take(w, q) ==
    /\ wcur' = [wcur EXCEPT ![w] = Front(queue[q])]
    /\ queue' = [queue EXCEPT ![q] = PopFront(queue[q])]
    /\ task' = [task EXCEPT ![Front(queue[q])].st = "running"]
    /\ wpc' = [wpc EXCEPT ![w] = "run"]

\* Frame worker fast path: q.q.pop() without the wake lock.
WFast(w) ==
    /\ wpc[w] = "fast"
    /\ IF PopFrom("frame", queue) # "none"
       THEN Take(w, PopFrom("frame", queue))
       ELSE /\ wpc' = [wpc EXCEPT ![w] = "lock"]
            /\ UNCHANGED <<queue, wcur, task>>
    /\ UNCHANGED <<qlock, zero_cv_lock, fg_jobs, bg_jobs, stopping, cpc, cop, nextId, mbVars, envVars>>

\* Default and background workers: q.queue.lock(), guard.pop(), then
\* drop(guard) on Some(task) or q.cv.wait(&mut guard) on None.  The deque is
\* touched only under the lock, so lock, pop and release-or-park are one step.
WLockPop(w) ==
    /\ wpc[w] = "lock"
    /\ WorkerGroup(w) # "frame"
    /\ ~qlock[WorkerGroup(w)]
    /\ IF PopFrom(WorkerGroup(w), queue) # "none"
       THEN Take(w, PopFrom(WorkerGroup(w), queue))
       ELSE /\ wpc' = [wpc EXCEPT ![w] = "waiting"]
            /\ UNCHANGED <<queue, wcur, task>>
    /\ UNCHANGED <<qlock, zero_cv_lock, fg_jobs, bg_jobs, stopping, cpc, cop, nextId, mbVars, envVars>>

\* Frame worker slow path: q.lock.lock() and q.q.pop().  The ring is not
\* protected by the wake lock: on None the worker still holds the lock and
\* has yet to call q.cv.wait.
WFrameLockPop(w) ==
    /\ wpc[w] = "lock"
    /\ WorkerGroup(w) = "frame"
    /\ ~qlock["frame"]
    /\ IF PopFrom("frame", queue) # "none"
       THEN Take(w, PopFrom("frame", queue)) /\ UNCHANGED qlock
       ELSE /\ wpc' = [wpc EXCEPT ![w] = "park"]
            /\ qlock' = [qlock EXCEPT !["frame"] = TRUE]
            /\ UNCHANGED <<queue, wcur, task>>
    /\ UNCHANGED <<zero_cv_lock, fg_jobs, bg_jobs, stopping, cpc, cop, nextId, mbVars, envVars>>

\* q.cv.wait(&mut guard): releases the lock and parks, atomically.
WPark(w) ==
    /\ wpc[w] = "park"
    /\ qlock' = [qlock EXCEPT ![WorkerGroup(w)] = FALSE]
    /\ wpc' = [wpc EXCEPT ![w] = "waiting"]
    /\ UNCHANGED <<queue, zero_cv_lock, fg_jobs, bg_jobs, stopping, wcur, cpc, cop, task, nextId, mbVars, envVars>>

\* The wakeup as it would be without the test of stopping after q.cv.wait:
\* the inner loop pops again.
WRelockPops(w) ==
    /\ wpc[w] = "relock"
    /\ ~qlock[WorkerGroup(w)]
    /\ wpc' = [wpc EXCEPT ![w] = "pop"]
    /\ qlock' = [qlock EXCEPT ![WorkerGroup(w)] = TRUE]
    /\ UNCHANGED <<queue, zero_cv_lock, fg_jobs, bg_jobs, stopping, wcur, cpc, cop, task, nextId, mbVars, envVars>>

\* A notified waiter re-acquires the lock before q.cv.wait returns, then
\* if stopping.load(Acquire) { break }: breaking drops the guard and returns
\* to the outer loop's test; otherwise the inner loop pops again, lock held.
WRelock(w) ==
    /\ wpc[w] = "relock"
    /\ ~qlock[WorkerGroup(w)]
    /\ IF stopping
       THEN /\ wpc' = [wpc EXCEPT ![w] = "top"]
            /\ UNCHANGED qlock
       ELSE /\ wpc' = [wpc EXCEPT ![w] = "pop"]
            /\ qlock' = [qlock EXCEPT ![WorkerGroup(w)] = TRUE]
    /\ UNCHANGED <<queue, zero_cv_lock, fg_jobs, bg_jobs, stopping, wcur, cpc, cop, task, nextId, mbVars, envVars>>

\* The inner loop's pop after a wakeup, lock held: Some(task) drops the guard;
\* None waits again (a default or background worker parks in the same step,
\* its deque being protected by the lock it holds).
WPop(w) ==
    /\ wpc[w] = "pop"
    /\ IF PopFrom(WorkerGroup(w), queue) # "none"
       THEN /\ Take(w, PopFrom(WorkerGroup(w), queue))
            /\ qlock' = [qlock EXCEPT ![WorkerGroup(w)] = FALSE]
       ELSE IF WorkerGroup(w) = "frame"
       THEN /\ wpc' = [wpc EXCEPT ![w] = "park"]
            /\ UNCHANGED <<queue, wcur, task, qlock>>
       ELSE /\ wpc' = [wpc EXCEPT ![w] = "waiting"]
            /\ qlock' = [qlock EXCEPT ![WorkerGroup(w)] = FALSE]
            /\ UNCHANGED <<queue, wcur, task>>
    /\ UNCHANGED <<zero_cv_lock, fg_jobs, bg_jobs, stopping, cpc, cop, nextId, mbVars, envVars>>

\* The counter a worker of group g decrements.
Decrement(bg) ==
    IF bg
    THEN bg_jobs' = bg_jobs - 1 /\ UNCHANGED fg_jobs
    ELSE fg_jobs' = fg_jobs - 1 /\ UNCHANGED bg_jobs

\* Value fetch_sub returns: the counter before the decrement.
Old(bg) == IF bg THEN bg_jobs ELSE fg_jobs

\* task() runs to its end (thread-local), then fg.fetch_sub(1) or
\* bg.fetch_sub(1) and the test of the value it returns.
WRun(w) ==
    /\ wpc[w] = "run"
    /\ Decrement(WorkerGroup(w) = "background")
    /\ wpc' = [wpc EXCEPT ![w] =
            IF ReachedZero(Old(WorkerGroup(w) = "background")) THEN "zlock" ELSE "top"]
    /\ task' = [task EXCEPT ![wcur[w]] = DoneTask]
    /\ wcur' = [wcur EXCEPT ![w] = NoTask]
    /\ UNCHANGED <<queue, qlock, zero_cv_lock, stopping, cpc, cop, nextId, mbVars, envVars>>

\* task() panics: the worker thread unwinds and ends inside the call, before
\* the fetch_sub that follows it; the guard of the queue was dropped before
\* the call, and nothing catches the panic.
WPanic(w) ==
    /\ wpc[w] = "run"
    /\ wpc' = [wpc EXCEPT ![w] = "exited"]
    /\ task' = [task EXCEPT ![wcur[w]].st = "panicked"]
    /\ wcur' = [wcur EXCEPT ![w] = NoTask]
    /\ UNCHANGED <<poolVars, cpc, cop, nextId, mbVars, envVars>>

\* Whether the notifier has to find zero_cv_lock free: it takes the lock
\* before notify_all.
NotifierLocks == TRUE

\* let _g = zero_lock.lock(); zero_cv.notify_all(); drop(_g);
WZNotify(w) ==
    /\ wpc[w] = "zlock"
    /\ NotifierLocks => ~zero_cv_lock
    /\ cpc' = NotifyAllZero
    /\ wpc' = [wpc EXCEPT ![w] = "top"]
    /\ UNCHANGED <<poolVars, wcur, cop, task, nextId, mbVars, envVars>>

\* ----------------------------------------------------------- client threads

\* Calls begun so far: ids handed out plus calls that have not reached their push.
Begun == (nextId - 1) + Cardinality({c \in Clients : cpc[c] \in {"push", "spawn"}})

\* add_job as it would be without its fetch_add: the job is pushed uncounted.
CountNothing(p) == UNCHANGED <<fg_jobs, bg_jobs>>

\* add_job / add_job_async entry: the counter's fetch_add(1) comes first.
Count(p) ==
    IF IsBackground(p)
    THEN bg_jobs' = bg_jobs + 1 /\ UNCHANGED fg_jobs
    ELSE fg_jobs' = fg_jobs + 1 /\ UNCHANGED bg_jobs

\* add_job(job) up to and including the fetch_add.
SubmitJob(c, p) ==
    /\ cpc[c] = "idle"
    /\ Begun < MaxJobs
    /\ Count(p)
    /\ cpc' = [cpc EXCEPT ![c] = "push"]
    /\ cop' = [cop EXCEPT ![c] = [NoOp EXCEPT !.kind = "job", !.prio = p]]
    /\ UNCHANGED <<queue, qlock, zero_cv_lock, stopping, wpc, wcur, task, nextId, mbVars, envVars>>

\* add_job_async(job) up to and including the fetch_add.
SubmitAsync(c, p) ==
    /\ cpc[c] = "idle"
    /\ Begun < MaxJobs
    /\ Count(p)
    /\ cpc' = [cpc EXCEPT ![c] = "spawn"]
    /\ cop' = [cop EXCEPT ![c] = [NoOp EXCEPT !.kind = "async", !.prio = p]]
    /\ UNCHANGED <<queue, qlock, zero_cv_lock, stopping, wpc, wcur, task, nextId, mbVars, envVars>>

\* The job enters sub-queue q as task nextId.
Enqueue(c, q) ==
    /\ queue' = [queue EXCEPT ![q] = PushBack(queue[q], nextId)]
    /\ task' = [task EXCEPT ![nextId] =
                    [st |-> "queued", prio |-> cop[c].prio, async |-> FALSE, ret |-> FALSE]]
    /\ nextId' = nextId + 1
    /\ cpc' = [cpc EXCEPT ![c] = "notify"]
    /\ cop' = [cop EXCEPT ![c].id = nextId]

\* Background and Immediate/Normal/Deferred arms: lock, push_back, drop(guard).
CPushLocked(c) ==
    /\ cpc[c] = "push"
    /\ cop[c].prio # "VideoFrame"
    /\ ~qlock[GroupOf(QueueOf(cop[c].prio))]
    /\ Enqueue(c, QueueOf(cop[c].prio))
    /\ UNCHANGED <<qlock, zero_cv_lock, fg_jobs, bg_jobs, stopping, wpc, wcur, mbVars, envVars>>

\* VideoFrame arm: one lock-free push on the ring; Err(_task) drops the
\* closure and returns RenderQueueFull.
CPushFrame(c) ==
    /\ cpc[c] = "push"
    /\ cop[c].prio = "VideoFrame"
    /\ IF RingAccepts(queue["frame"])
       THEN Enqueue(c, "frame")
       ELSE /\ task' = [task EXCEPT ![nextId] =
                    [st |-> "rejected", prio |-> cop[c].prio, async |-> FALSE, ret |-> FALSE]]
            /\ nextId' = nextId + 1
            /\ cpc' = [cpc EXCEPT ![c] = "idle"]
            /\ cop' = [cop EXCEPT ![c] = NoOp]
            /\ UNCHANGED queue
    /\ UNCHANGED <<qlock, zero_cv_lock, fg_jobs, bg_jobs, stopping, wpc, wcur, mbVars, envVars>>

\* cv.notify_one() after the push, then Ok(()).
CNotify(c) ==
    /\ cpc[c] = "notify"
    /\ wpc' \in NotifyOne(GroupOf(QueueOf(cop[c].prio)))
    /\ task' = [task EXCEPT ![cop[c].id].ret = TRUE]
    /\ cpc' = [cpc EXCEPT ![c] = "idle"]
    /\ cop' = [cop EXCEPT ![c] = NoOp]
    /\ UNCHANGED <<poolVars, wcur, nextId, mbVars, envVars>>

\* rt.spawn(async move { ... }); Ok(())
CSpawn(c) ==
    /\ cpc[c] = "spawn"
    /\ task' = [task EXCEPT ![nextId] =
                    [st |-> "spawned", prio |-> cop[c].prio, async |-> TRUE, ret |-> TRUE]]
    /\ nextId' = nextId + 1
    /\ cpc' = [cpc EXCEPT ![c] = "idle"]
    /\ cop' = [cop EXCEPT ![c] = NoOp]
    /\ UNCHANGED <<poolVars, wpc, wcur, mbVars, envVars>>

\* Unfinished jobs of the classes a join of this kind waits for whose
\* submission has returned Ok.
Accepted(kind) ==
    {t \in TaskIds : /\ task[t].ret
                     /\ ~Completed(t)
                     /\ kind = "join_all" \/ ~IsBackground(task[t].prio)}

\* join_sync() / join_all() is called.
JoinBegin(c, kind) ==
    /\ cpc[c] = "idle"
    /\ cpc' = [cpc EXCEPT ![c] = "j_lock"]
    /\ cop' = [cop EXCEPT ![c] = [NoOp EXCEPT !.kind = kind, !.saw = Accepted(kind)]]
    /\ UNCHANGED <<poolVars, wpc, wcur, task, nextId, mbVars, envVars>>

\* zero_cv_lock.lock() (or its re-acquisition when zero_cv.wait returns) and
\* fg_jobs.load(Acquire) in the loop condition.  join_sync returns Ok(()) on
\* zero, dropping the guard; join_all goes on to read bg_jobs, lock held; a
\* joiner that has to wait holds the lock until its zero_cv.wait.
JFg(c) ==
    /\ cpc[c] \in {"j_lock", "j_relock"}
    /\ ~zero_cv_lock
    /\ IF cop[c].kind = "join_sync"
       THEN IF JoinSyncWaits(fg_jobs, bg_jobs)
            THEN cpc' = [cpc EXCEPT ![c] = "j_park"] /\ zero_cv_lock' = TRUE
            ELSE cpc' = [cpc EXCEPT ![c] = "joined"] /\ UNCHANGED zero_cv_lock
       ELSE /\ cpc' = [cpc EXCEPT ![c] = IF JoinAllWaitsFg(fg_jobs) THEN "j_park" ELSE "j_bg"]
            /\ zero_cv_lock' = TRUE
    /\ UNCHANGED <<queue, qlock, fg_jobs, bg_jobs, stopping, wpc, wcur, cop, task, nextId, mbVars, envVars>>

\* bg_jobs.load(Acquire) in join_all's loop condition; Ok(()) on zero.
JBg(c) ==
    /\ cpc[c] = "j_bg"
    /\ IF JoinAllWaitsBg(bg_jobs)
       THEN cpc' = [cpc EXCEPT ![c] = "j_park"] /\ UNCHANGED zero_cv_lock
       ELSE cpc' = [cpc EXCEPT ![c] = "joined"] /\ zero_cv_lock' = FALSE
    /\ UNCHANGED <<queue, qlock, fg_jobs, bg_jobs, stopping, wpc, wcur, cop, task, nextId, mbVars, envVars>>

\* zero_cv.wait(&mut g): releases zero_cv_lock and parks, atomically.
JPark(c) ==
    /\ cpc[c] = "j_park"
    /\ zero_cv_lock' = FALSE
    /\ cpc' = [cpc EXCEPT ![c] = "j_wait"]
    /\ cop' = [cop EXCEPT ![c].waited = TRUE]
    /\ UNCHANGED <<queue, qlock, fg_jobs, bg_jobs, stopping, wpc, wcur, task, nextId, mbVars, envVars>>

\* The caller goes on after the join has returned.
JoinEnd(c) ==
    /\ cpc[c] = "joined"
    /\ cpc' = [cpc EXCEPT ![c] = "idle"]
    /\ cop' = [cop EXCEPT ![c] = NoOp]
    /\ UNCHANGED <<poolVars, wpc, wcur, task, nextId, mbVars, envVars>>

\* ------------------------------------------------- reconfiguration, profile

\* The (default, frame, background) arguments set_threads is called with.
ThreadConfigs == {<<0, 0, 0>>, <<2, 1, 1>>, <<1, 2, 2>>}

\* Thread count requested for group g by arguments cfg.
Requested(cfg, g) ==
    CASE g = "default"    -> cfg[1]
      [] g = "frame"      -> cfg[2]
      [] g = "background" -> cfg[3]

\* Order in which reconfigure_threads and spawn_workers go through the groups.
NextGroup(g) ==
    CASE g = "default"    -> "frame"
      [] g = "frame"      -> "background"
      [] g = "background" -> "none"

\* The JoinHandles in the group's vector: every thread spawned and not yet joined.
Handles(g) == {w \in Workers : WorkerGroup(w) = g /\ wpc[w] # "absent"}

\* Order in which profile locks the handle vectors: frame, default, background.
ProfileNextGroup(g) ==
    CASE g = "frame"      -> "default"
      [] g = "default"    -> "background"
      [] g = "background" -> "none"

\* The handle vectors profile holds locked when it is about to lock that of g.
ProfileHolds(g) ==
    CASE g = "frame"      -> {}
      [] g = "default"    -> {"frame"}
      [] g = "background" -> {"frame", "default"}

\* The vector's mutex is held by a client that is draining it, or by a client
\* inside profile that has read the vector's length: the guards profile takes
\* are temporaries of its tail expression and live until it returns.
HandlesLocked(g) ==
    \E c \in Clients :
        \/ cpc[c] = "r_join" /\ cop[c].grp = g
        \/ cpc[c] = "p_handles" /\ g \in ProfileHolds(cop[c].grp)

\* Mutant of AllExited: the drain does not wait for the threads.
AllExitedUnchecked(g) == TRUE

\* h.join() has returned for every handle of the group: its threads have ended.
AllExited(g) == \A w \in Handles(g) : wpc[w] = "exited"

\* profile().running_tasks: the lengths of the three handle vectors, summed.
RunningTasks == Cardinality(Handles("default")) + Cardinality(Handles("frame"))
                    + Cardinality(Handles("background"))

\* reconfigure_threads(default, frame, background): stopping.store(true, Release).
RStop(c, cfg) ==
    /\ cpc[c] = "idle"
    /\ stopping' = TRUE
    /\ cpc' = [cpc EXCEPT ![c] = "r_lock"]
    /\ cop' = [cop EXCEPT ![c] = [NoOp EXCEPT !.kind = "set_threads", !.cfg = cfg]]
    /\ UNCHANGED <<queue, qlock, zero_cv_lock, fg_jobs, bg_jobs, wpc, wcur, task, nextId, mbVars, envVars>>

\* let mut v = self.<group>_workers.lock();
RLock(c) ==
    /\ cpc[c] = "r_lock"
    /\ ~HandlesLocked(cop[c].grp)
    /\ cpc' = [cpc EXCEPT ![c] = "r_join"]
    /\ UNCHANGED <<poolVars, wpc, wcur, cop, task, nextId, mbVars, envVars>>

\* for h in v.drain(..) { let _ = h.join(); }: blocks until every thread of
\* the group has ended, empties the vector and drops its guard; then the
\* next group, or on to clearing the flag.
RJoin(c) ==
    /\ cpc[c] = "r_join"
    /\ AllExited(cop[c].grp)
    /\ wpc' = [w \in Workers |-> IF WorkerGroup(w) = cop[c].grp THEN "absent" ELSE wpc[w]]
    /\ IF NextGroup(cop[c].grp) = "none"
       THEN /\ cpc' = [cpc EXCEPT ![c] = "r_clear"]
            /\ cop' = [cop EXCEPT ![c].grp = "default"]
       ELSE /\ cpc' = [cpc EXCEPT ![c] = "r_lock"]
            /\ cop' = [cop EXCEPT ![c].grp = NextGroup(cop[c].grp)]
    /\ UNCHANGED <<poolVars, wcur, task, nextId, mbVars, envVars>>

\* stopping.store(false, Release)
RClear(c) ==
    /\ cpc[c] = "r_clear"
    /\ stopping' = FALSE
    /\ cpc' = [cpc EXCEPT ![c] = "r_spawn"]
    /\ UNCHANGED <<queue, qlock, zero_cv_lock, fg_jobs, bg_jobs, wpc, wcur, cop, task, nextId, mbVars, envVars>>

\* The n threads spawn_workers pushes onto the vector of group g: threads that
\* do not exist yet, named by the lowest ranks not in use.
Pushed(g, n) ==
    {w \in Workers :
        /\ WorkerGroup(w) = g
        /\ wpc[w] = "absent"
        /\ Cardinality({v \in Workers : /\ WorkerGroup(v) = g /\ wpc[v] = "absent"
                                         /\ Rank(v) < Rank(w)}) < n}

\* spawn_workers, one group: locks the group's vector, pushes max(1, n) new
\* threads, each starting at the top of its loop, and drops the guard; after
\* the background group reconfigure_threads returns.
RSpawn(c) ==
    /\ cpc[c] = "r_spawn"
    /\ ~HandlesLocked(cop[c].grp)
    /\ Cardinality(Pushed(cop[c].grp, Max(Requested(cop[c].cfg, cop[c].grp), 1)))
            = Max(Requested(cop[c].cfg, cop[c].grp), 1)
    /\ wpc' = [w \in Workers |->
                IF w \in Pushed(cop[c].grp, Max(Requested(cop[c].cfg, cop[c].grp), 1))
                THEN "top" ELSE wpc[w]]
    /\ IF NextGroup(cop[c].grp) = "none"
       THEN /\ cpc' = [cpc EXCEPT ![c] = "reconfigured"]
            /\ cop' = [cop EXCEPT ![c].grp = "default"]
       ELSE /\ cop' = [cop EXCEPT ![c].grp = NextGroup(cop[c].grp)]
            /\ UNCHANGED cpc
    /\ UNCHANGED <<poolVars, wcur, task, nextId, mbVars, envVars>>

\* The caller goes on after set_threads has returned.
REnd(c) ==
    /\ cpc[c] = "reconfigured"
    /\ cpc' = [cpc EXCEPT ![c] = "idle"]
    /\ cop' = [cop EXCEPT ![c] = NoOp]
    /\ UNCHANGED <<poolVars, wpc, wcur, task, nextId, mbVars, envVars>>

\* profile(): let q = self.default_q.queue.lock(); the guard is held until
\* profile returns.
PLock(c) ==
    /\ cpc[c] = "idle"
    /\ ~qlock["default"]
    /\ qlock' = [qlock EXCEPT !["default"] = TRUE]
    /\ cpc' = [cpc EXCEPT ![c] = "p_handles"]
    /\ cop' = [cop EXCEPT ![c] = [NoOp EXCEPT !.kind = "profile", !.grp = "frame"]]
    /\ UNCHANGED <<queue, zero_cv_lock, fg_jobs, bg_jobs, stopping, wpc, wcur, task, nextId, mbVars, envVars>>

\* self.frame_workers.lock().len() + self.default_workers.lock().len()
\* + self.background_workers.lock().len(): one lock per step, in this order;
\* after the third the profile is built and every guard is dropped.
PHandles(c) ==
    /\ cpc[c] = "p_handles"
    /\ ~HandlesLocked(cop[c].grp)
    /\ IF ProfileNextGroup(cop[c].grp) = "none"
       THEN /\ cpc' = [cpc EXCEPT ![c] = "profiled"]
            /\ cop' = [cop EXCEPT ![c].grp = "default"]
            /\ qlock' = [qlock EXCEPT !["default"] = FALSE]
       ELSE /\ cop' = [cop EXCEPT ![c].grp = ProfileNextGroup(cop[c].grp)]
            /\ UNCHANGED <<cpc, qlock>>
    /\ UNCHANGED <<queue, zero_cv_lock, fg_jobs, bg_jobs, stopping, wpc, wcur, task, nextId, mbVars, envVars>>

\* The caller goes on after profile has returned.
PEnd(c) ==
    /\ cpc[c] = "profiled"
    /\ cpc' = [cpc EXCEPT ![c] = "idle"]
    /\ cop' = [cop EXCEPT ![c] = NoOp]
    /\ UNCHANGED <<poolVars, wpc, wcur, task, nextId, mbVars, envVars>>

\* <WorkerPool as Drop>::drop(&mut self): stopping.store(true, Release).  The
\* pool is borrowed mutably, so no other call on it is in progress.
DStop(c) ==
    /\ \A d \in Clients : cpc[d] = "idle"
    /\ stopping' = TRUE
    /\ cpc' = [cpc EXCEPT ![c] = "d_notify"]
    /\ cop' = [cop EXCEPT ![c] = [NoOp EXCEPT !.kind = "drop"]]
    /\ UNCHANGED <<queue, qlock, zero_cv_lock, fg_jobs, bg_jobs, wpc, wcur, task, nextId, mbVars, envVars>>

\* default_q.cv.notify_all(), frame_q.cv.notify_all(), bg_q.cv.notify_all(),
\* one call per step, none of them under the lock of its queue: the workers
\* parked on the condvar become runnable.
DNotify(c) ==
    /\ cpc[c] = "d_notify"
    /\ wpc' = [w \in Workers |->
                IF w \in Waiters(cop[c].grp) THEN "relock" ELSE wpc[w]]
    /\ IF NextGroup(cop[c].grp) = "none"
       THEN /\ cpc' = [cpc EXCEPT ![c] = "d_join"]
            /\ cop' = [cop EXCEPT ![c].grp = "default"]
       ELSE /\ cop' = [cop EXCEPT ![c].grp = NextGroup(cop[c].grp)]
            /\ UNCHANGED cpc
    /\ UNCHANGED <<poolVars, wcur, task, nextId, mbVars, envVars>>

\* for h in self.<group>_workers.get_mut().drain(..) { let _ = h.join(); }:
\* blocks until every thread of the group has ended; after the background
\* group drop returns.
DJoin(c) ==
    /\ cpc[c] = "d_join"
    /\ AllExited(cop[c].grp)
    /\ wpc' = [w \in Workers |-> IF WorkerGroup(w) = cop[c].grp THEN "absent" ELSE wpc[w]]
    /\ IF NextGroup(cop[c].grp) = "none"
       THEN /\ cpc' = [cpc EXCEPT ![c] = "dropped"]
            /\ cop' = [cop EXCEPT ![c].grp = "default"]
       ELSE /\ cop' = [cop EXCEPT ![c].grp = NextGroup(cop[c].grp)]
            /\ UNCHANGED cpc
    /\ UNCHANGED <<poolVars, wcur, task, nextId, mbVars, envVars>>

\* --------------------------------------------------- async runtime tasks

\* (job.inner)().await runs to its end, then the completion hook's
\* fetch_sub(1) on the counter of the job's class.
ARun(t) ==
    /\ task[t].async
    /\ task[t].st = "spawned"
    /\ Decrement(IsBackground(task[t].prio))
    /\ task' = [task EXCEPT ![t] =
            IF ReachedZero(Old(IsBackground(task[t].prio)))
            THEN [task[t] EXCEPT !.st = "zlock"] ELSE DoneTask]
    /\ UNCHANGED <<queue, qlock, zero_cv_lock, stopping, wpc, wcur, cpc, cop, nextId, mbVars, envVars>>

\* let _g = zero_lock.lock(); zero_cv.notify_all(); drop(_g);
AZNotify(t) ==
    /\ task[t].async
    /\ task[t].st = "zlock"
    /\ NotifierLocks => ~zero_cv_lock
    /\ cpc' = NotifyAllZero
    /\ task' = [task EXCEPT ![t] = DoneTask]
    /\ UNCHANGED <<poolVars, wpc, wcur, cop, nextId, mbVars, envVars>>

\* ------------------------------------------------------------ specification

\* Steps of worker thread w.
WorkerStep(w) ==
    \/ WTop(w)
    \/ WFast(w)
    \/ WLockPop(w)
    \/ WFrameLockPop(w)
    \/ WPark(w)
    \/ WRelock(w)
    \/ WPop(w)
    \/ WRun(w)
    \/ WZNotify(w)

WorkerNext == \E w \in Workers : WorkerStep(w)

\* Steps of a client inside a submit_job call.
JobNext(c) ==
    \/ CPushLocked(c)
    \/ CPushFrame(c)
    \/ CNotify(c)

\* Steps of a client inside join_foreground.
JoinSyncNext(c) ==
    \/ JoinBegin(c, "join_sync")
    \/ JFg(c)
    \/ JPark(c)
    \/ JoinEnd(c)

\* Steps of a client inside join_all.
JoinAllNext(c) ==
    \/ JoinBegin(c, "join_all")
    \/ JFg(c)
    \/ JBg(c)
    \/ JPark(c)
    \/ JoinEnd(c)

\* Steps of a client inside set_threads.
SetThreadsNext(c) ==
    \/ \E cfg \in ThreadConfigs : RStop(c, cfg)
    \/ RLock(c)
    \/ RJoin(c)
    \/ RClear(c)
    \/ RSpawn(c)
    \/ REnd(c)

\* Steps of async task t on the runtime.
AsyncStep(t) ==
    \/ ARun(t)
    \/ AZNotify(t)

AsyncNext == \E t \in TaskIds : AsyncStep(t)

\* Steps a client takes inside a call it has begun.
ClientContinue(c) ==
    \/ CPushLocked(c)
    \/ CPushFrame(c)
    \/ CNotify(c)
    \/ CSpawn(c)
    \/ JFg(c)
    \/ JBg(c)
    \/ JPark(c)
    \/ RLock(c)
    \/ RJoin(c)
    \/ RClear(c)
    \/ RSpawn(c)

\* Scheduling: every worker thread, every client thread inside a call and
\* every spawned runtime task that can take a step eventually takes one.
\* Which calls the clients make, and when, is left open.
Fairness ==
    /\ \A w \in Workers : WF_vars(WorkerStep(w))
    /\ \A c \in Clients : WF_vars(ClientContinue(c))
    /\ \A t \in TaskIds : WF_vars(AsyncStep(t))

\* Queue discipline: c1 submits sync jobs of every priority while the workers
\* pop and run them.  The default group runs two workers and the frame group
\* one, or the reverse.
Next ==
    \/ WorkerNext
    \/ \E p \in Priority : SubmitJob("c1", p)
    \/ JobNext("c1")

Init == InitPool(2, 1, 1) \/ InitPool(1, 2, 1)

Spec == Init /\ [][Next]_vars

\* Submissions by c1 (sync of every priority, async of the frame and the
\* background class) racing with join_foreground calls by c2.
JoinNext ==
    \/ WorkerNext
    \/ \E p \in Priority : SubmitJob("c1", p)
    \/ \E p \in {"VideoFrame", "Background"} : SubmitAsync("c1", p)
    \/ JobNext("c1")
    \/ CSpawn("c1")
    \/ JoinSyncNext("c2")
    \/ AsyncNext

JoinSpec == InitPool(1, 1, 1) /\ [][JoinNext]_vars

\* join_foreground under fair scheduling: c1 submits sync jobs to the default
\* and the frame group and async jobs, so that the last decrement can come
\* from either worker group or from the completion hook.
FairJoinNext ==
    \/ WorkerNext
    \/ \E p \in {"Normal", "VideoFrame"} : SubmitJob("c1", p)
    \/ SubmitAsync("c1", "Normal")
    \/ JobNext("c1")
    \/ CSpawn("c1")
    \/ JoinSyncNext("c2")
    \/ AsyncNext

FairJoinSpec == InitPool(1, 1, 1) /\ [][FairJoinNext]_vars /\ Fairness

\* join_all under fair scheduling: c1 submits foreground and background jobs.
FairJoinAllNext ==
    \/ WorkerNext
    \/ \E p \in {"Normal", "Background"} : SubmitJob("c1", p)
    \/ CPushLocked("c1")
    \/ CNotify("c1")
    \/ JoinAllNext("c2")

FairJoinAllSpec == InitPool(1, 1, 1) /\ [][FairJoinAllNext]_vars /\ Fairness

\* The queues under fair scheduling: c1 submits sync jobs of every priority to
\* a pool of two default workers, one frame worker and one background worker.
FairQueueSpec == InitPool(2, 1, 1) /\ [][Next]_vars /\ Fairness

\* One set_threads call by c2 racing with the workers and with submissions by
\* c1 to each of the three groups, under fair scheduling.
ReconfNext ==
    \/ WorkerNext
    \/ \E p \in {"Normal", "VideoFrame", "Background"} : SubmitJob("c1", p)
    \/ JobNext("c1")
    \/ \E cfg \in ThreadConfigs : RStop("c2", cfg)
    \/ RLock("c2")
    \/ RJoin("c2")
    \/ RClear("c2")
    \/ RSpawn("c2")

ReconfSpec == InitPool(1, 1, 1) /\ [][ReconfNext]_vars /\ Fairness

\* The pool is dropped by c2 after c1 has submitted jobs to each of the three
\* groups, while the workers run, under fair scheduling.
DropNext ==
    \/ WorkerNext
    \/ \E p \in {"Normal", "VideoFrame", "Background"} : cpc["c2"] = "idle" /\ SubmitJob("c1", p)
    \/ JobNext("c1")
    \/ DStop("c2")
    \/ DNotify("c2")
    \/ DJoin("c2")

DropSpec ==
    /\ InitPool(1, 1, 1)
    /\ [][DropNext]_vars
    /\ Fairness
    /\ WF_vars(DNotify("c2") \/ DJoin("c2"))

\* c1 submits jobs and calls profile while c2 calls set_threads and the
\* workers run.
ProfileNext ==
    \/ WorkerNext
    \/ \E p \in {"Normal", "VideoFrame", "Background"} : SubmitJob("c1", p)
    \/ JobNext("c1")
    \/ PLock("c1")
    \/ PHandles("c1")
    \/ PEnd("c1")
    \/ \E cfg \in ThreadConfigs : RStop("c2", cfg)
    \/ RLock("c2")
    \/ RJoin("c2")
    \/ RClear("c2")
    \/ RSpawn("c2")

ProfileSpec == InitPool(1, 1, 1) /\ [][ProfileNext]_vars

\* The arguments of the set_threads calls that are made at the same time.
RacingConfigs == {<<0, 0, 0>>, <<1, 1, 1>>}

\* c1 and c2 each call set_threads once, at any time, while the workers run
\* and c1 submits Normal jobs before its call.
TwoReconfNext ==
    \/ WorkerNext
    \/ SubmitJob("c1", "Normal")
    \/ CPushLocked("c1")
    \/ CNotify("c1")
    \/ \E c \in Clients, cfg \in RacingConfigs : RStop(c, cfg)
    \/ \E c \in Clients : RLock(c)
    \/ \E c \in Clients : RJoin(c)
    \/ \E c \in Clients : RClear(c)
    \/ \E c \in Clients : RSpawn(c)

TwoReconfSpec == InitPool(1, 1, 1) /\ [][TwoReconfNext]_vars

\* Jobs that may panic: c1 submits Normal jobs to a pool with two default
\* workers while c2 calls join_foreground, under fair scheduling.
PanicNext ==
    \/ WorkerNext
    \/ \E w \in Workers : WPanic(w)
    \/ SubmitJob("c1", "Normal")
    \/ CPushLocked("c1")
    \/ CNotify("c1")
    \/ JoinSyncNext("c2")

PanicSpec == InitPool(2, 1, 1) /\ [][PanicNext]_vars /\ Fairness

\* Steps of thread p on the mailbox.
MailBoxStep(p) ==
    \/ \E n \in Names : Register(p, n)
    \/ RegSwap(p)
    \/ RegLoadId(p)
    \/ RegSwapId(p)
    \/ \E k \in Destinations : Unregister(p, k)
    \/ UnregLoad(p)
    \/ UnregSwap(p)
    \/ \E dest \in Destinations : nextEnv <= MaxRacingSends /\ Send(p, dest)
    \/ SendChan(p)
    \/ \E n \in Names : Resolve(p, n)
    \/ ReInit(p)
    \/ ReInitId(p)
    \/ MReturn(p)

\* Two threads calling the mailbox of a pool that is otherwise at rest.
MailBoxNext == \E p \in Procs : MailBoxStep(p)

MailBoxSpec == InitPool(1, 1, 1) /\ [][MailBoxNext]_vars

\* One thread calling the mailbox, each call after the other has returned.
SerialNext == MailBoxStep("p1")

SerialSpec == InitPool(1, 1, 1) /\ [][SerialNext]_vars

\* Steps that continue a mailbox call thread p is in.
MailBoxContinue(p) ==
    \/ RegSwap(p)
    \/ RegLoadId(p)
    \/ RegSwapId(p)
    \/ UnregLoad(p)
    \/ UnregSwap(p)
    \/ SendChan(p)
    \/ ReInitId(p)

\* p1 sends envelopes while p2 registers, unregisters and re-initialises and
\* the plugins take envelopes from their channels or drop their receivers.
\* A thread that is in a call goes on; nothing makes a plugin receive.
SendNext ==
    \/ \E dest \in Destinations : Send("p1", dest)
    \/ SendChan("p1")
    \/ MReturn("p1")
    \/ Register("p2", "alpha")
    \/ \E k \in Destinations : Unregister("p2", k)
    \/ ReInit("p2")
    \/ MailBoxContinue("p2")
    \/ MReturn("p2")
    \/ \E e \in Endpoints : Recv(e)
    \/ \E e \in Endpoints : CloseRx(e)

SendSpec ==
    InitPool(1, 1, 1) /\ [][SendNext]_vars /\ \A p \in Procs : WF_vars(MailBoxContinue(p))

\* The C boundary: p1 initialises the global mailbox and resolves names
\* through resolve_global_c, p2 registers endpoints on the global mailbox
\* once it is set and sends through send_global_c; the plugins receive or
\* drop their receivers.
GlobalNext ==
    \/ InitMailbox("p1")
    \/ \E query \in Queries : ResolveGlobalC("p1", query)
    \/ MReturn("p1")
    \/ GLOBAL_MAILBOX /\ Register("p2", "alpha")
    \/ RegSwap("p2")
    \/ RegLoadId("p2")
    \/ RegSwapId("p2")
    \/ \E dest \in Destinations : SendGlobalC("p2", dest)
    \/ SendChan("p2")
    \/ MReturn("p2")
    \/ \E e \in Endpoints : Recv(e)
    \/ \E e \in Endpoints : CloseRx(e)

GlobalSpec == InitPool(1, 1, 1) /\ [][GlobalNext]_vars

\* Envelopes are made by Envelope::new on two threads, cloned and dropped.
EnvelopeNext ==
    \/ \E p \in Procs : GetNext(p)
    \/ \E p \in Procs, hdr \in Headers, m \in NewMessages : EnvelopeNew(p, hdr, m)
    \/ \E h \in Holders : CloneValue(h, NullPtr)
    \/ \E h \in Holders : DropValue(h)

EnvelopeSpec == InitPool(1, 1, 1) /\ [][EnvelopeNext]_vars

\* Foreign callers make envelopes, which are converted, cloned, sent and
\* dropped.
ForeignNext ==
    \/ \E k \in ForeignIds, hdr \in Headers, m \in ForeignMessages : CEnvelopeIn(k, hdr, m)
    \/ \E h \in Holders, loc \in Pointers \cup {NullPtr} : FromCEnvelope(h, loc)
    \/ \E h \in Holders, loc \in Pointers \cup {NullPtr} : CloneValue(h, loc)
    \/ \E h \in Holders : DropValue(h)
    \/ \E h \in Holders, loc \in Pointers \cup {NullPtr} : SendDelivered(h, loc)
    \/ \E h \in Holders, loc \in Pointers \cup {NullPtr} : SendRefused(h, loc)

ForeignSpec == InitPool(1, 1, 1) /\ [][ForeignNext]_vars

\* FFIData values come from the foreign side, are cloned, turned into a
\* BoxedFFI by force_box, and dropped.
BoxNext ==
    \/ \E ptr \in Pointers \cup {NullPtr}, len \in Lens : FFIDataIn(ptr, len)
    \/ \E h \in Holders, T \in Types : ForceBox(h, T)
    \/ \E h \in Holders, loc \in Pointers \cup {NullPtr} :
            holder[h].type = "FFIData" /\ CloneValue(h, loc)
    \/ \E h \in Holders : DropValue(h)

BoxSpec == InitPool(1, 1, 1) /\ [][BoxNext]_vars

\* ------------------------------------------------------------------ claims

\* Accounting used by the claims: jobs whose counter increment has happened
\* and whose decrement has not.
InFlight(bg) ==
    {t \in TaskIds : /\ task[t].st \in {"queued", "running", "spawned"}
                     /\ IsBackground(task[t].prio) = bg}

\* Clients inside add_job / add_job_async, past the fetch_add and before the
\* job is in a queue or on the runtime.
Entering(bg) ==
    {c \in Clients : cpc[c] \in {"push", "spawn"} /\ IsBackground(cop[c].prio) = bg}

NoSubmissionInProgress == \A c \in Clients : cpc[c] \notin {"push", "notify", "spawn"}

Rejected == {t \in TaskIds : task[t].st = "rejected"}

\* Elements of a sequence.
Range(s) == {s[i] : i \in 1..Len(s)}

\* C1: a join_foreground call returns only after every foreground job whose
\* submission had returned Ok when the call began has finished.
C1_JoinWaitsForAccepted ==
    \A c \in Clients :
        (cpc[c] = "joined" /\ cop[c].kind = "join_sync")
            => \A t \in cop[c].saw : Completed(t)

C1_Witness ==
    \E c \in Clients :
        /\ cpc[c] = "joined"
        /\ cop[c].kind = "join_sync"
        /\ cop[c].waited
        /\ cop[c].saw # {}

\* C2: whenever no submission call is in progress, each counter equals the
\* number of accepted, not yet completed jobs of its class.
C2_CountersMatch ==
    NoSubmissionInProgress =>
        /\ fg_jobs = Cardinality(InFlight(FALSE))
        /\ bg_jobs = Cardinality(InFlight(TRUE))

\* C3: a VideoFrame submission rejected with RenderQueueFull leaves no trace
\* in the foreground counter (the counter only counts jobs in flight and
\* calls still entering), and its closure is in no queue and on no worker.
C3_RejectionRollsBack ==
    \A t \in Rejected :
        /\ fg_jobs = Cardinality(InFlight(FALSE)) + Cardinality(Entering(FALSE))
        /\ \A q \in SubQueues : t \notin Range(queue[q])
        /\ \A w \in Workers : wcur[w] # t

\* Nothing of the foreground class is left to happen: no job in flight, no
\* call entering, no zero notification still to be sent.
ForegroundQuiet ==
    /\ InFlight(FALSE) = {}
    /\ \A c \in Clients : cpc[c] \in {"push", "notify", "spawn"} => IsBackground(cop[c].prio)
    /\ \A w \in Workers : wpc[w] # "zlock"
    /\ \A t \in TaskIds : task[t].st # "zlock"

\* C4: after VideoFrame submissions of which some were rejected, a
\* join_foreground call is not left parked on the zero condvar once every
\* accepted foreground job has finished.
C4_JoinNotParkedOnRejected ==
    \A c \in Clients :
        (cpc[c] = "j_wait" /\ cop[c].kind = "join_sync" /\ Rejected # {})
            => ~ForegroundQuiet

\* C5: a submission returns RenderQueueFull exactly when it is a sync
\* VideoFrame job pushed onto a ring that holds its full capacity; every
\* other push or spawn is accepted; the ring never exceeds its capacity.
C5_RejectedIffRingFull ==
    [][ /\ Len(queue'["frame"]) <= FRAME_QUEUE_CAPACITY
        /\ \A c \in Clients :
            (cpc[c] \in {"push", "spawn"} /\ cpc'[c] # cpc[c]) =>
                ( task'[nextId].st = "rejected"
                    <=> /\ cpc[c] = "push"
                        /\ cop[c].prio = "VideoFrame"
                        /\ Len(queue["frame"]) = FRAME_QUEUE_CAPACITY )
      ]_vars

C5_Witness ==
    /\ Rejected # {}
    /\ Len(queue["frame"]) = FRAME_QUEUE_CAPACITY

\* C7: a join_foreground call that tests its loop condition while the
\* foreground counter is zero returns at that test, whatever the background
\* counter holds.
C7_JoinIgnoresBackground ==
    [][ \A c \in Clients :
            ( /\ cop[c].kind = "join_sync"
              /\ cpc[c] \in {"j_lock", "j_relock"}
              /\ cpc'[c] # cpc[c]
              /\ fg_jobs = 0 )
                => cpc'[c] = "joined"
      ]_vars

C7_Witness ==
    \E c \in Clients :
        /\ cpc[c] = "joined"
        /\ cop[c].kind = "join_sync"
        /\ ~cop[c].waited
        /\ bg_jobs > 0
        /\ InFlight(TRUE) # {}

\* Client c is inside a join of this kind and has not returned.
InJoin(c, kind) == cop[c].kind = kind /\ cpc[c] \in {"j_lock", "j_bg", "j_park", "j_wait", "j_relock"}

\* C6: a join_foreground call that is waiting returns if the foreground
\* counter reaches zero and stays zero: the notify_all of the decrement that
\* reached zero is not lost.
C6_JoinReturnsAtZero ==
    \A c \in Clients :
        []((InJoin(c, "join_sync") /\ [](fg_jobs = 0)) => <>(cpc[c] = "joined"))

\* A join_foreground call has returned after having parked on the zero condvar.
C6_Witness ==
    \E c \in Clients :
        /\ cpc[c] = "joined"
        /\ cop[c].kind = "join_sync"
        /\ cop[c].waited
        /\ fg_jobs = 0

\* C8 as stated: join_all returns in a state where both counters are zero.
C8_ReturnsWithBothZero ==
    [][ \A c \in Clients :
            (cop[c].kind = "join_all" /\ cpc[c] # "joined" /\ cpc'[c] = "joined")
                => (fg_jobs' = 0 /\ bg_jobs' = 0)
      ]_vars

\* C8 as amended: join_all returns only after reading the foreground counter
\* as zero and then the background counter as zero (the background counter is
\* zero at the return; the foreground counter was zero when read), jobs of
\* both classes accepted before the call have finished by then, and a waiting
\* join_all returns if both counters reach zero and stay zero.
C8_JoinAllReadsBothZero ==
    /\ [][ \A c \in Clients :
            cop[c].kind = "join_all" =>
                /\ (cpc[c] # "j_bg" /\ cpc'[c] = "j_bg") => fg_jobs = 0
                /\ (cpc[c] # "joined" /\ cpc'[c] = "joined") =>
                        /\ cpc[c] = "j_bg"
                        /\ bg_jobs' = 0
                        /\ \A t \in cop[c].saw : task'[t].st \in {"zlock", "done"}
         ]_vars
    /\ \A c \in Clients :
        []((InJoin(c, "join_all") /\ [](fg_jobs = 0 /\ bg_jobs = 0)) => <>(cpc[c] = "joined"))

\* A join_all call has returned after having parked, having waited for jobs
\* of both classes.
C8_Witness ==
    \E c \in Clients :
        /\ cpc[c] = "joined"
        /\ cop[c].kind = "join_all"
        /\ cop[c].waited
        /\ Cardinality(cop[c].saw) = 2

\* Workers of group g that are running.
Alive(g) == {w \in Workers : WorkerGroup(w) = g /\ wpc[w] \notin {"absent", "exited"}}

\* Worker w takes a task in this step.
Takes(w) == wcur[w] = NoTask /\ wcur'[w] # NoTask

\* C9: a default worker always pops from the highest-priority non-empty
\* sub-queue: it takes no Normal or Deferred task while an Immediate task is
\* queued, and no Deferred task while a Normal task is queued.
C9_StrictPriorityPop ==
    [][ \A w \in DefaultWorkers :
            Takes(w) =>
                LET q == QueueOf(task[wcur'[w]].prio) IN
                    /\ q \in {"immediate", "normal", "deferred"}
                    /\ q # "immediate" => queue["immediate"] = <<>>
                    /\ q = "deferred" => queue["normal"] = <<>>
      ]_vars

\* An Immediate task runs while a Normal or Deferred task enqueued before it
\* is still queued.
C9_Witness ==
    \E w \in DefaultWorkers :
        /\ wcur[w] # NoTask
        /\ task[wcur[w]].prio = "Immediate"
        /\ \E u \in Range(queue["normal"]) \cup Range(queue["deferred"]) : u < wcur[w]

Executed(t) == task[t].st \in {"running", "done"}

C12_FrameJobRuns ==
    \A t \in TaskIds :
        [](( task[t].st = "queued" /\ task[t].prio = "VideoFrame" ) => <>Executed(t))

\* Client c is inside set_threads and has not returned.
InSetThreads(c) == cpc[c] \in {"r_lock", "r_join", "r_clear", "r_spawn"}

\* How often task t occurs in the queues and in the hands of the workers.
Copies(t) ==
    Cardinality({<<q, i>> \in SubQueues \X (1..MaxJobs) : i <= Len(queue[q]) /\ queue[q][i] = t})
        + Cardinality({w \in Workers : wcur[w] = t})

\* C13: every job in flight is in exactly one place, its sub-queue or the
\* hands of one worker, and a finished job in none; no step of set_threads
\* changes a queue; and a job that is queued while set_threads is in progress
\* is run by a worker afterwards.  The last part is stated for the jobs of the
\* default and background queues, whose wake-ups are not lost (C11).
C13_QueuedWorkSurvivesSetThreads ==
    /\ [](\A t \in TaskIds :
            Copies(t) = IF task[t].st \in {"queued", "running"} THEN 1 ELSE 0)
    /\ [][ \A c \in Clients :
            (cop[c].kind = "set_threads" /\ cpc'[c] # cpc[c]) => queue' = queue ]_vars
    /\ \A t \in TaskIds :
        [](( /\ task[t].st = "queued"
             /\ task[t].prio # "VideoFrame"
             /\ \E c \in Clients : InSetThreads(c) ) => <>Executed(t))

\* C14: a set_threads call returns, whatever the workers are doing when it
\* is made.
C14_SetThreadsReturns ==
    \A c \in Clients : [](InSetThreads(c) => <>(cpc[c] = "reconfigured"))

\* max(1, n), written out.
AtLeastOne(n) == IF n = 0 THEN 1 ELSE n

\* C15: when set_threads(d, f, b) has returned, each group has max(1, n)
\* worker threads for its argument n, all of them running, the stopping flag
\* is clear, and profile().running_tasks is the sum of the three counts.
C15_CountsAfterSetThreads ==
    \A c \in Clients :
        cpc[c] = "reconfigured" =>
            /\ \A g \in Groups :
                /\ Cardinality(Handles(g)) = AtLeastOne(Requested(cop[c].cfg, g))
                /\ Alive(g) = Handles(g)
            /\ ~stopping
            /\ RunningTasks = AtLeastOne(cop[c].cfg[1]) + AtLeastOne(cop[c].cfg[2])
                                + AtLeastOne(cop[c].cfg[3])

\* set_threads(0, 0, 0) has returned on a pool that ran more than one worker
\* in no group, and one worker runs in each group.
C15_Witness ==
    \E c \in Clients :
        /\ cpc[c] = "reconfigured"
        /\ cop[c].cfg = <<0, 0, 0>>
        /\ RunningTasks = 3
        /\ \E t \in TaskIds : task[t].st = "done"

\* Position of a group in the order spawn_workers goes through.
GroupIndex(g) ==
    CASE g = "default"    -> 1
      [] g = "frame"      -> 2
      [] g = "background" -> 3

\* C16: a worker thread ends only at the top of its loop, holding no task;
\* its handle leaves the vector only after the thread has ended; a thread is
\* spawned only when every thread still in a vector belongs to a group that
\* the same spawn_workers call has already spawned; and a running task is in
\* the hands of a worker that is executing it.
C16_OldGenerationExitsFirst ==
    /\ [][ \A w \in Workers :
            /\ (wpc[w] # "exited" /\ wpc'[w] = "exited") => (wpc[w] = "top" /\ wcur[w] = NoTask)
            /\ (wpc[w] # "absent" /\ wpc'[w] = "absent") => wpc[w] = "exited"
            /\ (wpc[w] = "absent" /\ wpc'[w] # "absent") =>
                    \E c \in Clients :
                        /\ cpc[c] = "r_spawn"
                        /\ cop[c].grp = WorkerGroup(w)
                        /\ \A v \in Workers :
                              wpc[v] # "absent" => GroupIndex(WorkerGroup(v)) < GroupIndex(cop[c].grp)
          ]_vars
    /\ [](\A t \in TaskIds :
            task[t].st = "running" => \E w \in Workers : wcur[w] = t /\ wpc[w] = "run")

\* set_threads is blocked in the join of a group one of whose workers is
\* executing a task.
C16_Witness ==
    \E c \in Clients :
        /\ cpc[c] = "r_join"
        /\ \E w \in Handles(cop[c].grp) : wpc[w] = "run" /\ task[wcur[w]].st = "running"

\* Thread p takes a step of its mailbox call.
Steps(p) == mpc'[p] # mpc[p]

C18_SendRoutesByDestination ==
    [][ /\ \A p \in Procs :
            /\ (mpc[p] = "idle" /\ Steps(p) /\ mop'[p].kind = "send") =>
                LET dest == mop'[p].slot
                    occupied == dest < Len(registry.entries) /\ registry.entries[dest + 1].occ
                IN  /\ chan' = chan
                    /\ IF occupied
                       THEN mpc'[p] = "send_chan" /\ mop'[p].ep = registry.entries[dest + 1].val
                       ELSE mpc'[p] = "returned" /\ mop'[p].res = "PluginNotFound"
            /\ (mpc[p] = "send_chan" /\ Steps(p)) =>
                /\ mop'[p].res = "Ok"
                /\ chan' = [chan EXCEPT ![mop[p].ep] = Append(chan[mop[p].ep], mop[p].env)]
        /\ chan' # chan => \E p \in Procs : mpc[p] = "send_chan" /\ Steps(p)
      ]_vars

\* Endpoints e and f occupy two slots; the envelope sent to f's slot is on
\* f's channel and e's channel is empty.
C18_Witness ==
    \E e, f \in Endpoints :
        /\ e # f
        /\ \E k \in Destinations : SlabGet(registry, k) = e
        /\ \E k \in Destinations : SlabGet(registry, k) = f
        /\ chan[e] = <<>>
        /\ chan[f] # <<>>
        /\ \E p \in Procs : /\ mpc[p] = "returned" /\ mop[p].kind = "send" /\ mop[p].res = "Ok"
                            /\ SlabGet(registry, mop[p].slot) = f

\* C19: of two unregister calls for the same registration at most one returns
\* the endpoint, also when the two calls overlap.
C19_OneUnregisterWins ==
    \A p, q \in Procs :
        ( /\ p # q
          /\ mpc[p] = "returned" /\ mop[p].kind = "unregister" /\ mop[p].res = "Ok"
          /\ mpc[q] = "returned" /\ mop[q].kind = "unregister" /\ mop[q].res = "Ok" )
            => mop[p].ep # mop[q].ep

\* C20: no step of unregister changes the name table; the registry its swap
\* installs has slot id vacant; a send that looks up a vacant slot returns
\* PluginNotFound and resolve returns what the name table holds.
C20_UnregisterKeepsNames ==
    [][ \A p \in Procs :
            /\ ((mop[p].kind = "unregister" \/ mop'[p].kind = "unregister") /\ Steps(p)) => id' = id
            /\ (mpc[p] = "unreg_swap" /\ Steps(p)) =>
                /\ mop[p].slot < Len(registry'.entries)
                /\ ~registry'.entries[mop[p].slot + 1].occ
                /\ mop'[p].res = "Ok"
            /\ ( /\ mpc[p] = "idle" /\ Steps(p) /\ mop'[p].kind = "send"
                 /\ mop'[p].slot < Len(registry.entries)
                 /\ ~registry.entries[mop'[p].slot + 1].occ ) =>
                    mop'[p].res = "PluginNotFound"
            /\ (mpc[p] = "idle" /\ Steps(p) /\ mop'[p].kind = "resolve") =>
                    mop'[p].slot = id[mop'[p].name]
      ]_vars

\* After unregister(id) has emptied the slot, resolve of the name registered
\* with id has returned id and a send to id has returned PluginNotFound.
C20_Witness ==
    \E e \in Endpoints, p, q \in Procs :
        /\ regs[e].returned /\ ~regs[e].live
        /\ regs[e].slot < Len(registry.entries)
        /\ ~registry.entries[regs[e].slot + 1].occ
        /\ mpc[p] = "returned" /\ mop[p].kind = "resolve" /\ mop[p].res = "Ok"
        /\ mop[p].name = regs[e].name /\ mop[p].slot = regs[e].slot
        /\ mpc[q] = "returned" /\ mop[q].kind = "send" /\ mop[q].res = "PluginNotFound"
        /\ mop[q].slot = regs[e].slot

\* A registration that counts: its register call has returned, unregister has
\* not been called with its id, and re_init has not been called since.
Current(e) == regs[e].returned /\ regs[e].live /\ ~regs[e].wiped

\* C21: two registrations that count have different slot ids, and the slot of
\* each holds the endpoint its register call was given, whether the register
\* calls ran one after the other or at the same time.
C21_LiveSlotsDistinct ==
    \A e, f \in Endpoints :
        Current(e) =>
            /\ regs[e].slot < Len(registry.entries)
            /\ registry.entries[regs[e].slot + 1] = [occ |-> TRUE, val |-> e]
            /\ (Current(f) /\ f # e) => regs[f].slot # regs[e].slot

\* C22: a send whose endpoint was found neither waits nor loses the envelope
\* when the channel cannot take it: when the receiver is gone or the channel
\* is full, the call returns PluginFailedMessage with the envelope it was
\* given, and no channel changes; so every send that has found its endpoint
\* returns.
C22_SendFailsInsteadOfWaiting ==
    /\ [][\A p \in Procs :
            (/\ mpc[p] = "send_chan"
             /\ Steps(p)
             /\ \/ ~rx[mop[p].ep]
                \/ Len(chan[mop[p].ep]) >= ChannelCapacity) =>
                /\ mop'[p].res = "PluginFailedMessage"
                /\ mop'[p].env = mop[p].env
                /\ mop'[p].slot = mop[p].slot
                /\ chan' = chan]_vars
    /\ \A p \in Procs : [](mpc[p] = "send_chan" => <>(mpc[p] = "returned"))

\* C24: the endpoint a send found in the registry is the one it hands the
\* envelope to, whatever unregister and re_init do to the registry in
\* between: the endpoint the call holds does not change while it waits, its
\* step onto the channel puts the envelope at the end of that endpoint's
\* channel and of no other (or, when that endpoint's receiver is gone,
\* returns PluginFailedMessage), and the call never panics.
C24_LookedUpSendDelivers ==
    [][\A p \in Procs :
        /\ (mpc[p] = "idle" /\ mpc'[p] = "send_chan") =>
                /\ mop'[p].slot < Len(registry.entries)
                /\ registry.entries[mop'[p].slot + 1] = [occ |-> TRUE, val |-> mop'[p].ep]
        /\ (mpc[p] = "send_chan" /\ mpc'[p] = "send_chan") => mop'[p] = mop[p]
        /\ (mpc[p] = "send_chan" /\ Steps(p)) =>
                /\ mpc'[p] = "returned"
                /\ mop'[p].ep = mop[p].ep
                /\ IF rx[mop[p].ep]
                   THEN /\ mop'[p].res = "Ok"
                        /\ chan' = [chan EXCEPT ![mop[p].ep] = Append(@, mop[p].env)]
                   ELSE /\ mop'[p].res = "PluginFailedMessage"
                        /\ chan' = chan]_vars

\* C24 witness: p1 has found endpoint e in a slot, p2 has since returned from
\* unregister with e, a second registration has taken the slot, and e's
\* channel has room for p1's envelope.
C24_Witness ==
    /\ mpc["p1"] = "send_chan"
    /\ rx[mop["p1"].ep]
    /\ chan[mop["p1"].ep] = <<>>
    /\ SlabGet(registry, mop["p1"].slot) \notin {NoEndpoint, mop["p1"].ep}
    /\ ~regs[mop["p1"].ep].live

\* C23: re_init empties the slot table and the name table in one step, so no
\* resolve that runs while a re_init is in progress finds a name: there is no
\* moment at which re_init has emptied the slot table and the name table
\* still holds entries.
C23_ReInitClearsBothAtOnce ==
    [][\A p, q \in Procs :
        (/\ mpc[p] = "idle"
         /\ mpc'[p] = "returned"
         /\ mop'[p].kind = "resolve"
         /\ mop[q].kind = "re_init"
         /\ mpc[q] # "returned") =>
            mop'[p].res = "PluginNameNotFound"]_vars

\* Ids get_next has handed out: those of the envelopes Envelope::new has
\* built and those its callers hold before the struct is built.
Issued ==
    { holder[h].id : h \in { g \in Holders : holder[g].made = "new" } }
    \cup { mop[p].env : p \in { q \in Procs : mpc[q] = "env_new" } }

\* C25: two envelopes made by Envelope::new never have the same id, also when
\* two threads are in Envelope::new at the same time, and every id get_next
\* hands out is the value the counter had and greater than every id handed
\* out before.
C25_NewEnvelopeIdsDistinct ==
    /\ [](/\ \A h, g \in Holders :
                (h # g /\ holder[h].made = "new" /\ holder[g].made = "new") =>
                    holder[h].id # holder[g].id
          /\ \A p, q \in Procs :
                (p # q /\ mpc[p] = "env_new" /\ mpc[q] = "env_new") => mop[p].env # mop[q].env
          /\ \A p \in Procs, h \in Holders :
                (mpc[p] = "env_new" /\ holder[h].made = "new") => mop[p].env # holder[h].id)
    /\ [][\A p \in Procs :
            (mpc[p] = "idle" /\ mpc'[p] = "env_new") =>
                /\ mop'[p].env = NEXT_UUID
                /\ NEXT_UUID' = NEXT_UUID + 1
                /\ \A i \in Issued : i < mop'[p].env]_vars

\* C25 witness: two threads were in Envelope::new at the same time, and the
\* one that got the later id built its envelope first.
C25_Witness ==
    /\ holder[1].made = "new" /\ holder[1].id = 1
    /\ holder[2].made = "new" /\ holder[2].id = 0

\* The step converts the CEnvelope h into the Envelope that is made next.
Converts(h) ==
    /\ holder[h].type = "CEnvelope"
    /\ holder[h].st = "live"
    /\ NextHolder # NoHolder
    /\ holder'[NextHolder].made = "from"
    /\ holder'[NextHolder].root = holder[h].root

\* C26: the Envelope a CEnvelope converts into has the CEnvelope's id,
\* source, destination, require_ack and opcode and the variant of its tag,
\* with the same code for Code and the same pointer and length for FfiPeek
\* and FfiData.  Buffers of length zero, whose allocation is undefined, are
\* left out for FfiData.
C26_ConversionPreservesFields ==
    [][\A h \in Holders :
        Converts(h) =>
            LET c == holder[h]
                e == holder'[NextHolder]
            IN  /\ e.type = "Envelope"
                /\ e.id = c.id
                /\ e.source = c.source
                /\ e.destination = c.destination
                /\ e.require_ack = c.require_ack
                /\ e.message.opcode = c.message.opcode
                /\ e.message.tag = c.message.tag
                /\ c.message.tag = "Code" => e.message.code = c.message.code
                /\ c.message.tag = "FfiPeek" \/ (c.message.tag = "FfiData" /\ c.message.len > 0) =>
                        /\ e.message.ptr = c.message.ptr
                        /\ e.message.len = c.message.len]_vars

\* C27: converting a CEnvelope whose payload is FfiData of positive length
\* runs no destructor and gives an Envelope holding the CEnvelope's pointer,
\* length and destructor; dropping that Envelope runs the foreign destructor
\* on the pointer, for the first and only time.
C27_ConversionTakesOwnership ==
    [][\A h \in Holders :
        /\ (Converts(h) /\ holder[h].message.tag = "FfiData" /\ holder[h].message.len > 0) =>
                /\ calls' = calls
                /\ holder'[NextHolder].message = holder[h].message
        /\ (/\ holder[h].made = "from"
            /\ holder[h].message.tag = "FfiData"
            /\ holder[h].st = "live"
            /\ holder'[h].st = "dropped") =>
                LET ptr == holder[holder[h].root].message.ptr
                IN  calls[ptr] = 0 /\ calls' = [calls EXCEPT ![ptr] = 1]]_vars

\* C28: no two values that exist at once run the foreign destructor on one
\* pointer, a step that clones a value runs no destructor, the foreign
\* destructor runs at most once on a pointer, and it has run exactly once on
\* the pointer of a foreign buffer when the value that brought it and every
\* value derived from it have been dropped.
C28_CloneNeverFreesTwice ==
    /\ [](/\ \A h, g \in Holders :
                (/\ h # g
                 /\ holder[h].st = "live" /\ holder[g].st = "live"
                 /\ holder[h].message.tag = "FfiData" /\ holder[g].message.tag = "FfiData"
                 /\ holder[h].message.free = "foreign" /\ holder[g].message.free = "foreign") =>
                    holder[h].message.ptr # holder[g].message.ptr
          /\ \A ptr \in Pointers \cup {NullPtr} : calls[ptr] <= 1
          /\ \A h \in Holders :
                (/\ holder[h].made = "foreign"
                 /\ holder[h].message.tag = "FfiData"
                 /\ \A g \in Holders : holder[g].root = h => holder[g].st = "dropped") =>
                    calls[holder[h].message.ptr] = 1)
    /\ [][\A h \in Holders :
            (holder[h].st = "unused" /\ holder'[h].made = "clone" /\ holder'[h].st = "live"
             /\ holder'[h].at = "caller") => calls' = calls]_vars

\* C28 witness: a CEnvelope with a foreign buffer of positive length was
\* cloned, the clone got an address of its own, both were dropped, and the
\* foreign destructor has run once on the buffer.
C28_Witness ==
    /\ holder[1].made = "foreign" /\ holder[1].type = "CEnvelope"
    /\ holder[1].message.tag = "FfiData" /\ holder[1].message.len > 0
    /\ holder[2].made = "clone" /\ holder[2].type = "CEnvelope" /\ holder[2].root = 1
    /\ holder[2].message.ptr \notin {NullPtr, holder[1].message.ptr}
    /\ holder[1].st = "dropped" /\ holder[2].st = "dropped"
    /\ calls[holder[1].message.ptr] = 1

\* C29: for a buffer of positive length, the envelope a successful send puts
\* onto the channel holds the pointer, length and destructor of the envelope
\* the caller passed, and the send runs no destructor.
C29_SendHandsOverBuffer ==
    [][\A h \in Holders :
        (/\ holder[h].type = "Envelope"
         /\ holder[h].message.tag = "FfiData"
         /\ holder[h].message.len > 0
         /\ holder[h].st = "live"
         /\ holder[h].at = "caller"
         /\ NextHolder # NoHolder
         /\ holder'[NextHolder].at = "channel"
         /\ holder'[h].st = "dropped") =>
            /\ holder'[NextHolder].message = holder[h].message
            /\ calls' = calls]_vars

\* C30: resolve_global_c returns u32::MAX for the null pointer, for bytes
\* that are not UTF-8, while GLOBAL_MAILBOX is not set and for a name the name
\* table does not hold, and otherwise the id the name table holds; a call of
\* send_global_c returns 0 when its envelope went onto a channel and 1 in
\* every other case: GLOBAL_MAILBOX not set, no endpoint in the slot, receiver
\* gone.
C30_CBoundaryCodes ==
    [][\A p \in Procs :
        /\ (mpc'[p] = "returned" /\ Steps(p) /\ mop'[p].kind = "resolve_global_c") =>
                IF mop'[p].res \in {"null", "Utf8Error"}
                THEN mop'[p].slot = U32_MAX
                ELSE LET query == mop'[p].name
                     IN  /\ mop'[p].slot =
                                IF ~GLOBAL_MAILBOX \/ id[query] = NoSlot
                                THEN U32_MAX ELSE id[query]
                         /\ mop'[p].res = "Ok" <=> (GLOBAL_MAILBOX /\ id[query] # NoSlot)
                         /\ mop'[p].res = "Uninit" <=> ~GLOBAL_MAILBOX
        /\ (mpc'[p] = "returned" /\ Steps(p) /\ mop'[p].kind = "send_global_c") =>
                /\ mop'[p].slot = 0 <=> mop'[p].res = "Ok"
                /\ mop'[p].slot # 0 <=> mop'[p].res \in {"Uninit", "PluginNotFound",
                                                          "PluginFailedMessage"}
                /\ mop'[p].slot # 0 => mop'[p].slot = 1
                /\ mop'[p].res = "Ok" <=>
                        \E e \in Endpoints : chan' = [chan EXCEPT ![e] = Append(@, mop'[p].env)]
                /\ mop'[p].res # "Ok" => chan' = chan
                /\ mop'[p].res = "Uninit" <=> ~GLOBAL_MAILBOX]_vars

\* C30 witness: resolve_global_c has returned slot id 0 for a registered
\* name, and send_global_c has returned 1 for an envelope to that slot whose
\* receiver was gone.
C30_Witness ==
    /\ mpc["p1"] = "returned"
    /\ mop["p1"].kind = "resolve_global_c"
    /\ mop["p1"].slot = 0
    /\ mpc["p2"] = "returned"
    /\ mop["p2"].kind = "send_global_c"
    /\ mop["p2"].res = "PluginFailedMessage"
    /\ mop["p2"].slot = 1

\* C31: the global mailbox goes from not set to set once and never back:
\* while it is not set no registration exists and a call of resolve_global or
\* send_global (seen through its C wrapper) returns Uninit, and it returns
\* Uninit only then; the call of init_mailbox that finds it not set returns
\* Ok and sets it; a call that finds it set returns KernelInitFailed and
\* leaves the slab, the name table, the channels and the registrations as
\* they were.
C31_GlobalMailBoxSetOnce ==
    /\ [](~GLOBAL_MAILBOX => (registry = EmptySlab /\ id = EmptyMap /\ nextEp = 1))
    /\ [][/\ GLOBAL_MAILBOX => GLOBAL_MAILBOX'
          /\ \A p \in Procs :
                /\ (Steps(p) /\ mpc'[p] = "returned" /\ mop'[p].kind = "init_mailbox") =>
                        /\ GLOBAL_MAILBOX'
                        /\ mop'[p].res = (IF GLOBAL_MAILBOX THEN "KernelInitFailed" ELSE "Ok")
                        /\ <<registry, id, chan, regs, rx>>' = <<registry, id, chan, regs, rx>>
                /\ (Steps(p) /\ mpc'[p] = "returned"
                        /\ mop'[p].kind \in {"resolve_global_c", "send_global_c"}
                        /\ mop'[p].res \notin {"null", "Utf8Error"}) =>
                        (mop'[p].res = "Uninit" <=> ~GLOBAL_MAILBOX)]_vars

\* C31 witness: a call of init_mailbox has returned KernelInitFailed while the
\* global mailbox holds a registration made after the first call.
C31_Witness ==
    /\ GLOBAL_MAILBOX
    /\ mpc["p1"] = "returned"
    /\ mop["p1"].kind = "init_mailbox"
    /\ mop["p1"].res = "KernelInitFailed"
    /\ regs[1].returned
    /\ SlabContains(registry, regs[1].slot)
    /\ id[regs[1].name] = regs[1].slot

\* Slot k of slab s holds an endpoint.
Occupied(s, k) == k < Len(s.entries) /\ s.entries[k + 1].occ

\* C38: no update of the mailbox is lost when register, unregister and
\* re_init overlap: a registration that counts has its endpoint in its slot,
\* where send finds it, and its name in the name table; and a slot that is
\* vacant becomes occupied only by the slab swap of a register call whose
\* insert chose that slot, and then holds the endpoint of that call.
C38_NoLostUpdate ==
    /\ [](\A e \in Endpoints :
            Current(e) =>
                /\ Occupied(registry, regs[e].slot)
                /\ registry.entries[regs[e].slot + 1].val = e
                /\ id[regs[e].name] # NoSlot)
    /\ [][\A k \in 0..(MaxRegisters - 1) :
            (~Occupied(registry, k) /\ Occupied(registry', k)) =>
                \E p \in Procs :
                    /\ Steps(p)
                    /\ mpc[p] = "reg_swap"
                    /\ mop[p].slot = k
                    /\ registry'.entries[k + 1].val = mop[p].ep]_vars

\* C39: a name never routes to a foreign endpoint: the slot the name table
\* gives for a name is vacant or holds an endpoint that was registered under
\* that name, also after unregister has freed the slot and later register
\* calls have taken it again.
C39_NameRoutesToOwnEndpoint ==
    \A n \in Names :
        (id[n] # NoSlot /\ Occupied(registry, id[n])) =>
            regs[registry.entries[id[n] + 1].val].name = n

\* C40: force_box keeps the buffer singly owned: while the BoxedFFI a
\* successful force_box returned is live the foreign destructor has not been
\* invoked on its pointer, once that BoxedFFI is dropped it has been invoked
\* exactly once, and after a force_box that returned None it has been invoked
\* exactly once on the pointer of the FFIData the call consumed.
C40_ForceBoxSingleOwner ==
    \A h \in Holders :
        /\ (holder[h].type = "BoxedFFI" /\ holder[h].message.free = "foreign") =>
                calls[holder[h].message.ptr] = (IF holder[h].st = "live" THEN 0 ELSE 1)
        /\ (holder[h].type = "FFIData" /\ holder[h].message.free = "foreign"
                /\ holder[h].at = "None") =>
                calls[holder[h].message.ptr] = 1

\* C32: a job is counted before it can be seen in a queue or by the runtime
\* and uncounted only after it has run: each counter is at least the number
\* of jobs of its class that are queued, running or spawned plus the calls
\* that have counted and not yet pushed; a counter goes down only by one, only
\* from a value above zero and only in the step in which a running or spawned
\* job of its class ends; and a job enters a queue or the runtime in a step
\* that leaves the counters alone.
C32_CountedWhileVisible ==
    /\ [](\A bg \in BOOLEAN :
            LET n == IF bg THEN bg_jobs ELSE fg_jobs
            IN  n >= Cardinality(InFlight(bg)) + Cardinality(Entering(bg)))
    /\ [][\A bg \in BOOLEAN :
            LET n == IF bg THEN bg_jobs ELSE fg_jobs
                m == IF bg THEN bg_jobs' ELSE fg_jobs'
            IN  /\ m < n =>
                    /\ n >= 1
                    /\ m = n - 1
                    /\ \E t \in InFlight(bg) :
                            /\ task[t].st \in {"running", "spawned"}
                            /\ task'[t].st \notin {"queued", "running", "spawned"}
                /\ (\E t \in TaskIds : t \in InFlight(bg)' /\ t \notin InFlight(bg)) => m = n
       ]_vars

\* C32 witness: one foreground job has run and been uncounted while another
\* is running and still counted.
C32_Witness ==
    /\ fg_jobs = 1
    /\ bg_jobs = 0
    /\ \E t, u \in TaskIds :
        /\ task[t].st = "running" /\ ~IsBackground(task[t].prio)
        /\ Completed(u)

\* A worker that is leaving: stopping is set and the worker has been woken
\* from its queue condvar, or is running or has just finished a task, or
\* stands at the test at the top of its loop.
Leaving(w) == stopping /\ wpc[w] \in {"relock", "run", "zlock", "top"}

\* C33: a worker woken from its queue condvar while stopping is set goes to
\* the top of its loop and ends there without popping, and a worker that
\* finishes a task while stopping is set ends there before taking another:
\* from either point on the worker is never again at a pop, no step of it
\* other than the end of its running task changes a queue or a task, it stays
\* that way until it has ended, and what it leaves in the queues is still
\* queued when it ends.
C33_StoppingWorkerTakesNothing ==
    [][\A w \in Workers :
        Leaving(w) =>
            /\ wpc'[w] \in {"relock", "run", "zlock", "top", "exited"}
            /\ wpc'[w] # "exited" => stopping'
            /\ wpc'[w] # wpc[w] =>
                /\ wcur'[w] = NoTask
                /\ queue' = queue
                /\ wpc[w] = "relock" => (wpc'[w] = "top" /\ task' = task)
                /\ wpc[w] = "top" => (wpc'[w] = "exited" /\ task' = task)
                /\ \A t \in TaskIds : task[t].st = "queued" => task'[t].st = "queued"
      ]_vars

\* C33 witness: while stopping is set, one worker has been woken from its
\* queue condvar and another has ended with a task still queued for its
\* group.
C33_Witness ==
    /\ stopping
    /\ \E w \in Workers : wpc[w] = "relock"
    /\ \E w \in Workers, q \in SubQueues :
        /\ wpc[w] = "exited"
        /\ GroupOf(q) = WorkerGroup(w)
        /\ queue[q] # <<>>

\* Client c is inside the drop of the pool and has not returned.
InDrop(c) == cpc[c] \in {"d_notify", "d_join"}

\* C34: dropping the pool always terminates: once drop has set stopping,
\* every worker ends and drop returns from its joins, wherever each worker
\* stands in its loop when drop stores the flag and notifies the condvars.
C34_DropReturns ==
    \A c \in Clients : [](InDrop(c) => <>(cpc[c] = "dropped"))

\* C35: profile and set_threads cannot block each other for good: there is
\* no state in which profile holds the lock of the default queue and waits
\* for the default handle vector, set_threads holds that vector and waits in
\* its join for a default worker, and that worker waits for the lock of the
\* default queue.  The state is looked for with a job in the default queue, so
\* that the worker, given the lock, would pop it, run it and end.
C35_NoLockCycle ==
    \A c, d \in Clients, w \in Workers :
        ~ ( /\ PopFrom("default", queue) # "none"
            /\ cpc[c] = "p_handles" /\ cop[c].grp = "default"
            /\ cpc[d] = "r_join" /\ cop[d].grp = "default"
            /\ w \in Handles("default")
            /\ wpc[w] \in {"lock", "relock"}
            /\ qlock["default"] )

\* C36: when two set_threads calls made at the same time have both returned,
\* the pool is as one of them alone would have left it: for one of the two
\* calls every group has max(1, n) threads for that call's argument n, every
\* thread in a vector is running, and stopping is clear.
C36_AsIfOneAfterTheOther ==
    (\A c \in Clients : cpc[c] = "reconfigured") =>
        /\ ~stopping
        /\ \A w \in Workers : wpc[w] # "exited"
        /\ \E c \in Clients : \A g \in Groups :
                Cardinality(Handles(g)) = AtLeastOne(Requested(cop[c].cfg, g))

\* No foreground job is left to run: none is queued, running or spawned, and
\* no submission of one is under way.
ForegroundDrained == InFlight(FALSE) = {} /\ Entering(FALSE) = {}

\* C37: a panic of a foreground task does not keep join_foreground from
\* returning: a join_foreground call that is waiting returns once no
\* foreground job is left to run, also when some of the jobs ended in a
\* panic.
C37_JoinReturnsAfterPanic ==
    \A c \in Clients :
        []((InJoin(c, "join_sync") /\ []ForegroundDrained) => <>(cpc[c] = "joined"))


====
